---- MODULE Spec2Model ----
(***************************************************************************)
(* A model of flowrite's in-process workflow engine (LocalEngine), its     *)
(* dependency resolver and its condition evaluator.                        *)
(*                                                                         *)
(* A workflow is a map from job ids to job definitions (needs, guard,      *)
(* steps, job-level outputs).  The executor (BashExecutor.execute) is the  *)
(* environment of the engine: what a command does is a fixed table, the    *)
(* variable `executor`, which says how often a step's command fails before *)
(* it succeeds and which KEY=VALUE pairs it emits when it succeeds.        *)
(***************************************************************************)
EXTENDS Integers, Sequences, FiniteSets, TLC

VARIABLES
    workflow_def,   \* LocalEngine.run_workflow: the validated WorkflowDefinition
    executor,       \* behaviour of BashExecutor.execute per (job, step)
    errors,         \* _parse_and_validate_workflow: what WorkflowParser.validate returned
    completed,      \* run_workflow: set of finished job ids
    job_outputs,    \* run_workflow: job id -> {job_id,status,outputs,error}
    env_vars,       \* run_workflow: the environment dict shared by the loop
    ready_jobs,     \* run_workflow: the list being iterated by `for job_id in ready_jobs`
    pc,             \* position of run_workflow: "loop", "for", "build", "done"
    should_break,   \* True when the loop was left by `if should_break: break`
    result,         \* the WorkflowResult returned by _build_final_result
    wave,           \* number of ready lists computed so far
    wave_env,       \* env_vars as it was when the current ready list was computed
    log,            \* history: one record per job handled (run or skipped)
    not_met,        \* history: jobs get_ready_jobs found with a false guard
    job_run,        \* JobWorkflow.run: its arguments, locals, position and history
    call            \* a call of a function on its own: arguments, position, return value

vars == <<workflow_def, executor, errors, completed, job_outputs, env_vars, ready_jobs,
          pc, should_break, result, wave, wave_env, log, not_met, job_run, call>>

-----------------------------------------------------------------------------
(* Bounds and vocabulary *)

\* Config.max_retries as used by the modelled engine (getattr(config, "max_retries", 3))
MaxRetries == 1

Jobs == {"a", "b", "c"}

None == "<None>"

\* Python dict helpers: a dict is a function whose DOMAIN is its key set
EmptyDict == <<>>

DictGet(d, k, default) == IF k \in DOMAIN d THEN d[k] ELSE default

\* dict.update / {**d, **e}: entries of e win
DictUpdate(d, e) == e @@ d

\* str.upper() on the identifiers used by the model
upper(s) ==
    CASE s = "a" -> "A"
      [] s = "b" -> "B"
      [] s = "c" -> "C"
      [] s = "k" -> "K"
      [] s = "o" -> "O"
      [] s = "s" -> "S"
      [] s = "t" -> "T"
      [] s = "N" -> "N"
      [] s = "t" -> "T"
      [] OTHER -> s

-----------------------------------------------------------------------------
(* ConditionEvaluator                                                      *)
(*                                                                         *)
(* A condition string is a sequence of tokens.  A token is a record        *)
(* [kind, job, key, val]; kind "&&" and "||" stand for the substrings      *)
(* " && " and " || ", the other kinds for the text between them.           *)

Tok(kind, job, key, val) == [kind |-> kind, job |-> job, key |-> key, val |-> val]

AndTok == Tok("&&", "", "", "")
OrTok == Tok("||", "", "", "")
NeedsOutEq(j, k, v) == Tok("needs.outputs==", j, k, v)
NeedsOutNe(j, k, v) == Tok("needs.outputs!=", j, k, v)
NeedsResEq(j, v) == Tok("needs.result==", j, "", v)
NeedsResNe(j, v) == Tok("needs.result!=", j, "", v)
EnvEq(x, v) == Tok("env==", "", x, v)
EnvNe(x, v) == Tok("env!=", "", x, v)

\* str.split(sep) on a token sequence: the pieces between the separators
RECURSIVE Split(_, _)
Split(s, sep) ==
    IF \A i \in 1..Len(s) : s[i] # sep
    THEN <<s>>
    ELSE LET i == CHOOSE n \in 1..Len(s) :
                     s[n] = sep /\ \A m \in 1..(n - 1) : s[m] # sep
         IN <<SubSeq(s, 1, i - 1)>> \o Split(SubSeq(s, i + 1, Len(s)), sep)

\* a run of whitespace characters in a condition, and a text that matches
\* none of the patterns of evaluate_job_condition
WsTok == Tok(" ", "", "", "")
UnknownTok == Tok("unknown", "", "", "")

\* str.strip(): the text without the whitespace at its two ends
RECURSIVE strip(_)
strip(cond) ==
    IF cond = <<>> THEN cond
    ELSE IF Head(cond) = WsTok THEN strip(Tail(cond))
    ELSE IF cond[Len(cond)] = WsTok THEN strip(SubSeq(cond, 1, Len(cond) - 1))
    ELSE cond

\* re.search(pattern, condition): the first token of that kind, or None
Search(cond, kind) ==
    IF \E i \in 1..Len(cond) : cond[i].kind = kind
    THEN cond[CHOOSE i \in 1..Len(cond) :
                 cond[i].kind = kind /\ \A m \in 1..(i - 1) : cond[m].kind # kind]
    ELSE Tok(None, "", "", "")

\* OutputOf that takes the output from any recorded job
OutputOf_any_job(outs, j, k) ==
    IF \E i \in DOMAIN outs : k \in DOMAIN outs[i].outputs
    THEN outs[CHOOSE i \in DOMAIN outs : k \in DOMAIN outs[i].outputs].outputs[k]
    ELSE None

\* job_outputs.get(job_id, {}).get("outputs", {}).get(output_key)
OutputOf(outs, j, k) ==
    IF j \in DOMAIN outs THEN DictGet(outs[j].outputs, k, None) ELSE None

\* ResultOf that reads the recorded status as it is
ResultOf_raw(outs, j) ==
    IF j \in DOMAIN outs THEN outs[j].status ELSE "success"

\* job_outputs.get(job_id, {}).get("status", "success"), "completed" read as "success"
ResultOf(outs, j) ==
    LET actual == IF j \in DOMAIN outs THEN outs[j].status ELSE "success"
    IN IF actual = "completed" THEN "success" ELSE actual

\* evaluate_simple that returns False for a text none of the patterns match
evaluate_simple_fail_closed(cond, outs, env) ==
    IF cond = <<>> THEN TRUE
    ELSE IF cond = <<Tok("always()", "", "", "")>> THEN TRUE
    ELSE IF cond \in {<<Tok("success()", "", "", "")>>,
                      <<Tok("failure()", "", "", "")>>,
                      <<Tok("cancelled()", "", "", "")>>} THEN TRUE
    ELSE LET m1 == Search(cond, "needs.outputs==")
             m2 == Search(cond, "needs.result==")
             m3 == Search(cond, "env==")
             m4 == Search(cond, "needs.outputs!=")
             m5 == Search(cond, "needs.result!=")
         IN IF m1.kind # None THEN OutputOf(outs, m1.job, m1.key) = m1.val
            ELSE IF m2.kind # None THEN ResultOf(outs, m2.job) = m2.val
            ELSE IF m3.kind # None THEN DictGet(env, m3.key, None) = m3.val
            ELSE IF m4.kind # None THEN OutputOf(outs, m4.job, m4.key) # m4.val
            ELSE IF m5.kind # None THEN ResultOf(outs, m5.job) # m5.val
            ELSE FALSE

\* evaluate_job_condition on a condition without " && " / " || "
evaluate_simple(cond, outs, env) ==
    IF cond = <<>> THEN TRUE
    ELSE IF cond = <<Tok("always()", "", "", "")>> THEN TRUE
    ELSE IF cond \in {<<Tok("success()", "", "", "")>>,
                      <<Tok("failure()", "", "", "")>>,
                      <<Tok("cancelled()", "", "", "")>>} THEN TRUE
    ELSE LET m1 == Search(cond, "needs.outputs==")
             m2 == Search(cond, "needs.result==")
             m3 == Search(cond, "env==")
             m4 == Search(cond, "needs.outputs!=")
             m5 == Search(cond, "needs.result!=")
         IN IF m1.kind # None THEN OutputOf(outs, m1.job, m1.key) = m1.val
            ELSE IF m2.kind # None THEN ResultOf(outs, m2.job) = m2.val
            ELSE IF m3.kind # None THEN DictGet(env, m3.key, None) = m3.val
            ELSE IF m4.kind # None THEN OutputOf(outs, m4.job, m4.key) # m4.val
            ELSE IF m5.kind # None THEN ResultOf(outs, m5.job) # m5.val
            ELSE TRUE

\* and_result that goes on after a part that is false
RECURSIVE and_result_no_break(_, _, _, _)
and_result_no_break(and_parts, outs, env, evaluated) ==
    IF and_parts = <<>> THEN [ret |-> TRUE, evaluated |-> evaluated]
    ELSE LET rest == and_result_no_break(Tail(and_parts), outs, env,
                                         Append(evaluated, Head(and_parts)))
         IN [rest EXCEPT !.ret = evaluate_simple(strip(Head(and_parts)), outs, env) /\ @]

\* the loop `for and_part in and_parts` over the parts that are left: its
\* and_result, and evaluated, the parts evaluate_job_condition was called for
\* so far; it leaves at the first part that is false
RECURSIVE and_result(_, _, _, _)
and_result(and_parts, outs, env, evaluated) ==
    IF and_parts = <<>> THEN [ret |-> TRUE, evaluated |-> evaluated]
    ELSE IF ~evaluate_simple(strip(Head(and_parts)), outs, env)
    THEN [ret |-> FALSE, evaluated |-> Append(evaluated, Head(and_parts))]
    ELSE and_result(Tail(and_parts), outs, env, Append(evaluated, Head(and_parts)))

\* the loop `for or_part in or_parts` over the parts that are left; it
\* returns at the first part whose and_result is true
RECURSIVE or_result(_, _, _, _)
or_result(or_parts, outs, env, evaluated) ==
    IF or_parts = <<>> THEN [ret |-> FALSE, evaluated |-> evaluated]
    ELSE LET r == and_result(Split(Head(or_parts), AndTok), outs, env, evaluated)
         IN IF r.ret THEN r ELSE or_result(Tail(or_parts), outs, env, r.evaluated)

\* _evaluate_complex_condition that splits at " && " first and at " || "
\* inside each part
_evaluate_complex_condition_and_first(cond, outs, env) ==
    LET and_parts == Split(cond, AndTok)
        or_true(part) == LET or_parts == Split(part, OrTok)
                         IN \E i \in 1..Len(or_parts) : evaluate_simple(or_parts[i], outs, env)
    IN [ret |-> \A i \in 1..Len(and_parts) : or_true(and_parts[i]),
        evaluated |-> or_result(Split(cond, OrTok), outs, env, <<>>).evaluated]

\* _evaluate_complex_condition: the value it returns, ret, and the parts it
\* called evaluate_job_condition for, in order
_evaluate_complex_condition(cond, outs, env) ==
    or_result(Split(cond, OrTok), outs, env, <<>>)

\* the position at which evaluate_job_condition(cond, ...) returns: "empty"
\* for `if not condition`, "always" and "function" for the two comparisons
\* with the function names, "complex" for the call of
\* _evaluate_complex_condition, "pattern" for the patterns and the default
branch(cond) ==
    IF cond = <<>> THEN "empty"
    ELSE IF strip(cond) = <<Tok("always()", "", "", "")>> THEN "always"
    ELSE IF strip(cond) \in {<<Tok("success()", "", "", "")>>,
                             <<Tok("failure()", "", "", "")>>,
                             <<Tok("cancelled()", "", "", "")>>} THEN "function"
    ELSE IF \E i \in 1..Len(cond) : cond[i] \in {AndTok, OrTok} THEN "complex"
    ELSE "pattern"

\* evaluate_job_condition that evaluates the function names on the recorded
\* outcomes: success() iff no recorded job failed, failure() iff one did,
\* cancelled() never
evaluate_job_condition_context(cond, outs, env) ==
    IF branch(cond) \in {"empty", "always"} THEN TRUE
    ELSE IF branch(cond) = "function"
         THEN IF strip(cond) = <<Tok("success()", "", "", "")>>
              THEN \A j \in DOMAIN outs : outs[j].status # "failure"
              ELSE IF strip(cond) = <<Tok("failure()", "", "", "")>>
              THEN \E j \in DOMAIN outs : outs[j].status = "failure"
              ELSE FALSE
    ELSE IF branch(cond) = "complex"
         THEN _evaluate_complex_condition(strip(cond), outs, env).ret
    ELSE evaluate_simple(strip(cond), outs, env)

evaluate_job_condition(cond, outs, env) ==
    IF branch(cond) \in {"empty", "always", "function"} THEN TRUE
    ELSE IF branch(cond) = "complex"
         THEN _evaluate_complex_condition(strip(cond), outs, env).ret
    ELSE evaluate_simple(strip(cond), outs, env)

\* evaluate_loop_condition
evaluate_loop_condition(condition, iteration, max_iterations, step_success, env) ==
    IF condition = <<>> THEN iteration >= max_iterations
    ELSE IF condition = <<Tok("success()", "", "", "")>> THEN step_success
    ELSE IF condition = <<Tok("failure()", "", "", "")>> THEN ~step_success
    ELSE IF condition = <<Tok("cancelled()", "", "", "")>> THEN FALSE
    ELSE LET match == Search(condition, "env==")
         IN IF match.kind # None THEN DictGet(env, match.key, None) = match.val
            ELSE iteration >= max_iterations

-----------------------------------------------------------------------------
(* WorkflowParser.validate *)

\* the order in which a Python loop visits a collection: some fixed order
RECURSIVE SetToSeq(_)
SetToSeq(S) ==
    IF S = {} THEN <<>>
    ELSE LET x == CHOOSE y \in S : TRUE IN <<x>> \o SetToSeq(S \ {x})

\* has_cycle(job_id), the closure of validate; st is [visited, rec_stack, ret],
\* the two sets it shares between calls and the value it returns
RECURSIVE has_cycle(_, _, _)
RECURSIVE has_cycle_deps(_, _, _)

\* has_cycle that takes a job it has visited before as a cycle
has_cycle_visited(needs, job_id, st) ==
    IF job_id \in st.rec_stack \/ job_id \in st.visited THEN [st EXCEPT !.ret = TRUE]
    ELSE LET st1 == [visited |-> st.visited \cup {job_id},
                     rec_stack |-> st.rec_stack \cup {job_id},
                     ret |-> FALSE]
             deps == IF job_id \in DOMAIN needs THEN SetToSeq(needs[job_id]) ELSE <<>>
             st2 == has_cycle_deps(needs, deps, st1)
         IN IF st2.ret THEN st2
            ELSE [st2 EXCEPT !.rec_stack = @ \ {job_id}]

has_cycle(needs, job_id, st) ==
    IF job_id \in st.rec_stack THEN [st EXCEPT !.ret = TRUE]
    ELSE IF job_id \in st.visited THEN [st EXCEPT !.ret = FALSE]
    ELSE LET st1 == [visited |-> st.visited \cup {job_id},
                     rec_stack |-> st.rec_stack \cup {job_id},
                     ret |-> FALSE]
             deps == IF job_id \in DOMAIN needs THEN SetToSeq(needs[job_id]) ELSE <<>>
             st2 == has_cycle_deps(needs, deps, st1)
         IN IF st2.ret THEN st2
            ELSE [st2 EXCEPT !.rec_stack = @ \ {job_id}]

\* `for dep in job.needs: if has_cycle(dep): return True`
has_cycle_deps(needs, deps, st) ==
    IF deps = <<>> THEN [st EXCEPT !.ret = FALSE]
    ELSE LET st1 == has_cycle(needs, Head(deps), st)
         IN IF st1.ret THEN st1 ELSE has_cycle_deps(needs, Tail(deps), st1)

\* `for job_id in job_ids: if job_id not in visited and has_cycle(job_id): ... break`
RECURSIVE cycle_check(_, _, _)
cycle_check(needs, job_ids, st) ==
    IF job_ids = <<>> THEN FALSE
    ELSE IF Head(job_ids) \in st.visited THEN cycle_check(needs, Tail(job_ids), st)
    ELSE LET st1 == has_cycle(needs, Head(job_ids), st)
         IN IF st1.ret THEN TRUE ELSE cycle_check(needs, Tail(job_ids), st1)

\* validate(workflow): the error list, as the set of its messages; needs maps
\* each declared job id to the set of ids its needs list holds
validate(needs) ==
    IF DOMAIN needs = {} THEN {<<"Workflow must contain 'jobs'">>}
    ELSE UNION {{<<"depends on non-existent job", j, d>> : d \in needs[j] \ DOMAIN needs} :
                   j \in DOMAIN needs}
         \cup (IF cycle_check(needs, SetToSeq(DOMAIN needs),
                              [visited |-> {}, rec_stack |-> {}, ret |-> FALSE])
               THEN {<<"Circular dependency detected">>} ELSE {})

-----------------------------------------------------------------------------
(* DependencyResolver *)

\* the set of the elements of a list
Range(f) == {f[i] : i \in DOMAIN f}

\* ready_loop without the check of job.needs
RECURSIVE ready_loop_no_needs(_, _, _, _, _, _)
ready_loop_no_needs(wf, done, outs, env, rest, acc) ==
    IF rest = <<>> THEN acc
    ELSE LET job_id == Head(rest)
             job == wf[job_id]
         IN ready_loop_no_needs(wf, done, outs, env, Tail(rest),
               IF job.if_condition # <<>>
               THEN IF evaluate_job_condition(job.if_condition, outs, env)
                    THEN [acc EXCEPT !.ready = Append(@, job_id)]
                    ELSE [acc EXCEPT !.not_met = Append(@, job_id)]
               ELSE [acc EXCEPT !.ready = Append(@, job_id)])

\* ready_loop that takes a job whose guard is false as ready
RECURSIVE ready_loop_no_guard(_, _, _, _, _, _)
ready_loop_no_guard(wf, done, outs, env, rest, acc) ==
    IF rest = <<>> THEN acc
    ELSE LET job_id == Head(rest)
             job == wf[job_id]
         IN ready_loop_no_guard(wf, done, outs, env, Tail(rest),
               IF \A dep \in job.needs : dep \in done
               THEN [acc EXCEPT !.ready = Append(@, job_id)]
               ELSE acc)

\* ready_loop with any() in place of all() over a non-empty job.needs
RECURSIVE ready_loop_any_dep(_, _, _, _, _, _)
ready_loop_any_dep(wf, done, outs, env, rest, acc) ==
    IF rest = <<>> THEN acc
    ELSE LET job_id == Head(rest)
             job == wf[job_id]
         IN ready_loop_any_dep(wf, done, outs, env, Tail(rest),
               IF job.needs = {} \/ \E dep \in job.needs : dep \in done
               THEN IF job.if_condition # <<>>
                    THEN IF evaluate_job_condition(job.if_condition, outs, env)
                         THEN [acc EXCEPT !.ready = Append(@, job_id)]
                         ELSE [acc EXCEPT !.not_met = Append(@, job_id)]
                    ELSE [acc EXCEPT !.ready = Append(@, job_id)]
               ELSE acc)

\* ready_loop that takes a job only when each of its needs has status completed
RECURSIVE ready_loop_needs_success(_, _, _, _, _, _)
ready_loop_needs_success(wf, done, outs, env, rest, acc) ==
    IF rest = <<>> THEN acc
    ELSE LET job_id == Head(rest)
             job == wf[job_id]
         IN ready_loop_needs_success(wf, done, outs, env, Tail(rest),
               IF \A dep \in job.needs : dep \in done /\ outs[dep].status = "completed"
               THEN IF job.if_condition # <<>>
                    THEN IF evaluate_job_condition(job.if_condition, outs, env)
                         THEN [acc EXCEPT !.ready = Append(@, job_id)]
                         ELSE [acc EXCEPT !.not_met = Append(@, job_id)]
                    ELSE [acc EXCEPT !.ready = Append(@, job_id)]
               ELSE acc)

\* the loop `for job_id in remaining` of get_ready_jobs over the rest of the
\* iteration; acc.ready is the list `ready`, acc.not_met the jobs for which the
\* loop logs "condition not met"
RECURSIVE ready_loop(_, _, _, _, _, _)
ready_loop(wf, done, outs, env, rest, acc) ==
    IF rest = <<>> THEN acc
    ELSE LET job_id == Head(rest)
             job == wf[job_id]
         IN ready_loop(wf, done, outs, env, Tail(rest),
               IF \A dep \in job.needs : dep \in done
               THEN IF job.if_condition # <<>>
                    THEN IF evaluate_job_condition(job.if_condition, outs, env)
                         THEN [acc EXCEPT !.ready = Append(@, job_id)]
                         ELSE [acc EXCEPT !.not_met = Append(@, job_id)]
                    ELSE [acc EXCEPT !.ready = Append(@, job_id)]
               ELSE acc)

\* get_ready_jobs with `remaining` taken to be every job of the workflow
get_ready_jobs_all(wf, done, outs, env) ==
    ready_loop(wf, done, outs, env, SetToSeq(DOMAIN wf),
               [ready |-> <<>>, not_met |-> <<>>]).ready

\* get_ready_jobs: the list `ready`, for one iteration order of `remaining`
get_ready_jobs(wf, done, outs, env) ==
    ready_loop(wf, done, outs, env, SetToSeq(DOMAIN wf \ done),
               [ready |-> <<>>, not_met |-> <<>>]).ready

\* get_job_diagnostics that checks the guard before the needs
get_job_diagnostics_guard_first(wf, done, outs, env) ==
    LET remaining == DOMAIN wf \ done
        diag(job_id) ==
            LET job == wf[job_id]
                missing_deps == {dep \in job.needs : dep \notin done}
                evaluated == job.if_condition # <<>>
                condition_met ==
                    IF evaluated
                    THEN evaluate_job_condition(job.if_condition, outs, env)
                    ELSE TRUE
                dependencies_met == missing_deps = {}
            IN [status |-> IF dependencies_met /\ condition_met THEN "ready"
                           ELSE IF ~condition_met THEN "condition_not_met"
                           ELSE "waiting_for_dependencies",
                dependencies_met |-> dependencies_met,
                condition_met |-> condition_met,
                missing_dependencies |-> missing_deps,
                condition_details |-> IF evaluated
                                      THEN <<job.if_condition, condition_met>>
                                      ELSE <<>>]
    IN [job_id \in remaining |-> diag(job_id)]

\* get_job_diagnostics: one record per remaining job; missing_dependencies is
\* the list missing_deps as a set, condition_details is <<>> for None and else
\* the pair of its expression and evaluated_to
get_job_diagnostics(wf, done, outs, env) ==
    LET remaining == DOMAIN wf \ done
        diag(job_id) ==
            LET job == wf[job_id]
                missing_deps == {dep \in job.needs : dep \notin done}
                evaluated == missing_deps = {} /\ job.if_condition # <<>>
                condition_met ==
                    IF evaluated
                    THEN evaluate_job_condition(job.if_condition, outs, env)
                    ELSE TRUE
                dependencies_met == missing_deps = {}
            IN [status |-> IF dependencies_met /\ condition_met THEN "ready"
                           ELSE IF ~dependencies_met THEN "waiting_for_dependencies"
                           ELSE "condition_not_met",
                dependencies_met |-> dependencies_met,
                condition_met |-> condition_met,
                missing_dependencies |-> missing_deps,
                condition_details |-> IF evaluated
                                      THEN <<job.if_condition, condition_met>>
                                      ELSE <<>>]
    IN [job_id \in remaining |-> diag(job_id)]

-----------------------------------------------------------------------------
(* LocalEngine: the job runner *)

\* _create_job_output
_create_job_output(job_id, status, outputs, error) ==
    [job_id |-> job_id, status |-> status, outputs |-> outputs, error |-> error]

\* BashExecutor.execute as the engine sees it: the attempt-th call (from 0) of
\* a step's command returns success iff the command has failed ex.fails times
\* before; a failure is a non-zero exit or an exception, as ex.raises says
execute(ex, attempt) ==
    IF attempt >= ex.fails THEN [how |-> "ok", env_updates |-> ex.emits]
    ELSE IF ex.raises THEN [how |-> "raise", env_updates |-> EmptyDict]
    ELSE [how |-> "exit", env_updates |-> EmptyDict]

\* _execute_step_with_retry with `for attempt in range(max_retries + 2)` and
\* the last attempt taken to be attempt max_retries + 1
RECURSIVE _execute_step_with_retry_extra(_, _, _, _)
_execute_step_with_retry_extra(ex, max_retries, attempt, calls) ==
    IF attempt >= max_retries + 2
    THEN [outputs |-> EmptyDict, succeeded |-> FALSE,
          error |-> <<"Unknown execution error">>, calls |-> calls]
    ELSE LET r == execute(ex, attempt)
         IN IF r.how = "ok"
            THEN [outputs |-> r.env_updates, succeeded |-> TRUE,
                  error |-> <<>>, calls |-> calls + 1]
            ELSE IF attempt < max_retries + 1
                 THEN _execute_step_with_retry_extra(ex, max_retries, attempt + 1, calls + 1)
                 ELSE [outputs |-> EmptyDict, succeeded |-> FALSE,
                       error |-> <<"Command failed after", max_retries + 2, "attempts">>,
                       calls |-> calls + 1]

\* _execute_step_with_retry: `for attempt in range(max_retries + 1)`; calls
\* counts the executor.execute invocations made
RECURSIVE _execute_step_with_retry(_, _, _, _)
_execute_step_with_retry(ex, max_retries, attempt, calls) ==
    IF attempt >= max_retries + 1
    THEN [outputs |-> EmptyDict, succeeded |-> FALSE,
          error |-> <<"Unknown execution error">>, calls |-> calls]
    ELSE LET r == execute(ex, attempt)
         IN IF r.how = "ok"
            THEN [outputs |-> r.env_updates, succeeded |-> TRUE,
                  error |-> <<>>, calls |-> calls + 1]
            ELSE IF r.how = "exit"
            THEN IF attempt < max_retries
                 THEN _execute_step_with_retry(ex, max_retries, attempt + 1, calls + 1)
                 ELSE [outputs |-> EmptyDict, succeeded |-> FALSE,
                       error |-> <<"Command failed after", max_retries + 1, "attempts">>,
                       calls |-> calls + 1]
            ELSE IF attempt = max_retries
                 THEN [outputs |-> EmptyDict, succeeded |-> FALSE,
                       error |-> <<"Execution error after", max_retries + 1, "attempts">>,
                       calls |-> calls + 1]
                 ELSE _execute_step_with_retry(ex, max_retries, attempt + 1, calls + 1)

\* _update_step_environment left out: no STEP_ entry is written
_update_step_environment_none(step_id, outputs, env) == env

\* _update_step_environment: env_vars[f"STEP_{step_id}_{key}".upper()] = str(value)
_update_step_environment(step_id, outputs, env) ==
    DictUpdate(env, [n \in {"STEP_" \o upper(step_id) \o "_" \o upper(key) :
                              key \in DOMAIN outputs} |->
                       outputs[CHOOSE key \in DOMAIN outputs :
                                  n = "STEP_" \o upper(step_id) \o "_" \o upper(key)]])

\* the order in which the keys of the outputs dicts of the model are inserted:
\* all_outputs gets the keys the commands emit, and {**all_outputs,
\* **job_level_outputs} puts the names of the job-level outputs after them
KeyOrder == <<"k", "o", "K">>

\* dict.items(): the (key, value) pairs of d in insertion order
items(d) ==
    LET present(key) == IF key \in DOMAIN d THEN <<key>> ELSE <<>>
        keys == present(KeyOrder[1]) \o present(KeyOrder[2]) \o present(KeyOrder[3])
                \o SetToSeq(DOMAIN d \ Range(KeyOrder))
    IN [i \in 1..Len(keys) |-> <<keys[i], d[keys[i]]>>]

\* _update_global_environment that does not upper-case the job id
RECURSIVE _update_global_environment_lower(_, _, _)
_update_global_environment_lower(job_id, pairs, env) ==
    IF pairs = <<>> THEN env
    ELSE _update_global_environment_lower(job_id, Tail(pairs),
             (("JOB_" \o job_id \o "_" \o upper(Head(pairs)[1])) :> Head(pairs)[2])
             @@ env)

\* _update_global_environment, `for key, value in final_outputs.items():
\* env_vars[f"JOB_{job_id.upper()}_{key.upper()}"] = str(value)`, over the
\* pairs that are left
RECURSIVE _update_global_environment(_, _, _)
_update_global_environment(job_id, pairs, env) ==
    IF pairs = <<>> THEN env
    ELSE _update_global_environment(job_id, Tail(pairs),
             (("JOB_" \o upper(job_id) \o "_" \o upper(Head(pairs)[1])) :> Head(pairs)[2])
             @@ env)

\* _execute_job_steps without `and not job_failed` and without `break`: the
\* steps after a failed step are run as well
RECURSIVE _execute_job_steps_no_break(_, _, _, _, _)
_execute_job_steps_no_break(steps, exs, max_retries, i, s) ==
    IF i > Len(steps) THEN s
    ELSE IF steps[i].run # ""
    THEN LET r == _execute_step_with_retry(exs[i], max_retries, 0, 0)
             hist == [s EXCEPT !.calls = Append(@, r.calls),
                               !.seen = Append(@, s.env_vars)]
         IN IF r.succeeded
            THEN _execute_job_steps_no_break(steps, exs, max_retries, i + 1,
                   [hist EXCEPT
                      !.all_outputs = DictUpdate(@, r.outputs),
                      !.env_vars = IF steps[i].id # ""
                                   THEN _update_step_environment(steps[i].id, r.outputs, @)
                                   ELSE @])
            ELSE _execute_job_steps_no_break(steps, exs, max_retries, i + 1,
                   [hist EXCEPT !.job_failed = TRUE, !.error_message = r.error])
    ELSE _execute_job_steps_no_break(steps, exs, max_retries, i + 1,
           [s EXCEPT !.calls = Append(@, 0), !.seen = Append(@, EmptyDict)])

\* _execute_job_steps: the loop over job_def.steps from step i on; s carries
\* all_outputs, job_failed, error_message, env_vars, and the history of the
\* loop: calls[i] executor calls made for step i, seen[i] the env_vars the
\* command of step i was substituted and run with
RECURSIVE _execute_job_steps(_, _, _, _, _)
_execute_job_steps(steps, exs, max_retries, i, s) ==
    IF i > Len(steps) THEN s
    ELSE IF steps[i].run # "" /\ ~s.job_failed
    THEN LET r == _execute_step_with_retry(exs[i], max_retries, 0, 0)
             hist == [s EXCEPT !.calls = Append(@, r.calls),
                               !.seen = Append(@, s.env_vars)]
         IN IF r.succeeded
            THEN _execute_job_steps(steps, exs, max_retries, i + 1,
                   [hist EXCEPT
                      !.all_outputs = DictUpdate(@, r.outputs),
                      !.env_vars = IF steps[i].id # ""
                                   THEN _update_step_environment(steps[i].id, r.outputs, @)
                                   ELSE @])
            ELSE [hist EXCEPT !.job_failed = TRUE, !.error_message = r.error]
    ELSE _execute_job_steps(steps, exs, max_retries, i + 1,
           [s EXCEPT !.calls = Append(@, 0), !.seen = Append(@, EmptyDict)])

\* _resolve_step_reference: step_outputs_dict.get(output_key) when the
\* expression matches ${{ steps.S.outputs.K }}, else None
_resolve_step_reference(output_expression, step_outputs_dict) ==
    IF output_expression.kind = "steps"
    THEN DictGet(step_outputs_dict, output_expression.key, None)
    ELSE None

\* _process_job_level_outputs.  An output expression is a record [kind, step,
\* key, text]: kind "steps" is ${{ steps.<step>.outputs.<key> }}, kind "needs"
\* another ${{ }} form, kind "text" a string without "${{" and without "$",
\* which VariableSubstitution.substitute returns as it is
_process_job_level_outputs(job_def, step_outputs_dict, env, job_failed) ==
    IF job_def.outputs # EmptyDict /\ ~job_failed
    THEN LET value(name) ==
                 IF job_def.outputs[name].kind \in {"steps", "needs"}
                 THEN _resolve_step_reference(job_def.outputs[name], step_outputs_dict)
                 ELSE job_def.outputs[name].text
         IN [name \in {n \in DOMAIN job_def.outputs : value(n) # None} |-> value(name)]
    ELSE EmptyDict

\* _execute_job on the engine state st = [job_outputs, env_vars, completed, log].
\* log is the history of the run: one record per job handled, with the wave,
\* the value of its guard, env_vars and job_outputs as they were when it was
\* handled, and per step the executor calls made and the env_vars seen
_execute_job(job_id, wf, exs, max_retries, w, st) ==
    LET job_def == wf[job_id]
        condition_met == evaluate_job_condition(job_def.if_condition,
                                                st.job_outputs, st.env_vars)
        entry == [job |-> job_id, wave |-> w, guard |-> condition_met,
                  entry_env |-> st.env_vars, entry_outs |-> st.job_outputs]
    IN IF job_def.if_condition # <<>> /\ ~condition_met
       THEN [job_outputs |-> (job_id :> _create_job_output(job_id, "skipped", EmptyDict, <<>>))
                               @@ st.job_outputs,
             env_vars |-> st.env_vars,
             completed |-> st.completed \cup {job_id},
             log |-> Append(st.log, entry @@ [what |-> "skipped", calls |-> <<>>,
                                              seen |-> <<>>])]
       ELSE LET s == _execute_job_steps(job_def.steps, exs[job_id], max_retries, 1,
                        [all_outputs |-> EmptyDict, job_failed |-> FALSE,
                         error_message |-> <<>>, env_vars |-> st.env_vars,
                         calls |-> <<>>, seen |-> <<>>])
                job_level_outputs == _process_job_level_outputs(
                                         job_def, s.all_outputs, s.env_vars, s.job_failed)
                final_outputs == DictUpdate(s.all_outputs, job_level_outputs)
                job_status == IF s.job_failed THEN "failure" ELSE "completed"
            IN [job_outputs |-> (job_id :> _create_job_output(job_id, job_status,
                                              final_outputs, s.error_message))
                                  @@ st.job_outputs,
                env_vars |-> IF ~s.job_failed
                             THEN _update_global_environment(job_id, items(final_outputs),
                                                             s.env_vars)
                             ELSE s.env_vars,
                completed |-> st.completed \cup {job_id},
                log |-> Append(st.log, entry @@ [what |-> "run", calls |-> s.calls,
                                                 seen |-> s.seen])]

-----------------------------------------------------------------------------
(* LocalEngine: the scheduler *)

\* _mark_condition_failed_jobs_as_skipped that records the default status
\* "completed" of a job output in place of "skipped"
_mark_condition_failed_jobs_as_completed(diagnostics, w, st) ==
    LET marked == {job_id \in DOMAIN diagnostics :
                      diagnostics[job_id].status = "condition_not_met"}
    IN [job_outputs |-> [job_id \in marked |->
                           _create_job_output(job_id, "completed", EmptyDict, <<>>)]
                        @@ st.job_outputs,
        env_vars |-> st.env_vars,
        completed |-> st.completed \cup marked,
        log |-> st.log \o
                [i \in 1..Cardinality(marked) |->
                   [job |-> SetToSeq(marked)[i], wave |-> w,
                    guard |-> diagnostics[SetToSeq(marked)[i]].condition_met,
                    entry_env |-> st.env_vars, entry_outs |-> st.job_outputs,
                    what |-> "skipped", calls |-> <<>>, seen |-> <<>>]]]

\* _mark_condition_failed_jobs_as_skipped
_mark_condition_failed_jobs_as_skipped(diagnostics, w, st) ==
    LET marked == {job_id \in DOMAIN diagnostics :
                      diagnostics[job_id].status = "condition_not_met"}
    IN [job_outputs |-> [job_id \in marked |->
                           _create_job_output(job_id, "skipped", EmptyDict, <<>>)]
                        @@ st.job_outputs,
        env_vars |-> st.env_vars,
        completed |-> st.completed \cup marked,
        log |-> st.log \o
                [i \in 1..Cardinality(marked) |->
                   [job |-> SetToSeq(marked)[i], wave |-> w,
                    guard |-> diagnostics[SetToSeq(marked)[i]].condition_met,
                    entry_env |-> st.env_vars, entry_outs |-> st.job_outputs,
                    what |-> "skipped", calls |-> <<>>, seen |-> <<>>]]]

\* _handle_blocked_jobs that skips the jobs with an unmet guard only when no
\* job is waiting for its needs, and breaks otherwise
_handle_blocked_jobs_break(wf, w, st) ==
    LET diagnostics == get_job_diagnostics(wf, st.completed, st.job_outputs, st.env_vars)
        waiting_for_deps == {j \in DOMAIN diagnostics :
                               diagnostics[j].status = "waiting_for_dependencies"}
        condition_failed == {j \in DOMAIN diagnostics :
                               diagnostics[j].status = "condition_not_met"}
    IN IF waiting_for_deps # {}
       THEN [st |-> st, should_break |-> TRUE]
       ELSE IF condition_failed # {}
       THEN [st |-> _mark_condition_failed_jobs_as_skipped(diagnostics, w, st),
             should_break |-> FALSE]
       ELSE [st |-> st, should_break |-> TRUE]

\* _handle_blocked_jobs: the new engine state and the should_break it returns
_handle_blocked_jobs(wf, w, st) ==
    LET blocked(diagnostics) ==
            LET waiting_for_deps == {j \in DOMAIN diagnostics :
                                       diagnostics[j].status = "waiting_for_dependencies"}
                condition_failed == {j \in DOMAIN diagnostics :
                                       diagnostics[j].status = "condition_not_met"}
            IN IF waiting_for_deps # {} /\ condition_failed # {}
               THEN [st |-> _mark_condition_failed_jobs_as_skipped(diagnostics, w, st),
                     should_break |-> FALSE]
               ELSE IF waiting_for_deps # {}
               THEN [st |-> st, should_break |-> TRUE]
               ELSE IF condition_failed # {}
               THEN [st |-> _mark_condition_failed_jobs_as_skipped(diagnostics, w, st),
                     should_break |-> FALSE]
               ELSE [st |-> st, should_break |-> TRUE]
    IN blocked(get_job_diagnostics(wf, st.completed, st.job_outputs, st.env_vars))

\* _get_ready_jobs_with_diagnostics: the ready jobs, should_break and the state
_get_ready_jobs_with_diagnostics(wf, w, st) ==
    LET ready == Range(get_ready_jobs(wf, st.completed, st.job_outputs, st.env_vars))
        remaining == DOMAIN wf \ st.completed
    IN IF ready = {}
       THEN IF remaining # {}
            THEN [ready |-> {}] @@ _handle_blocked_jobs(wf, w, st)
            ELSE [ready |-> {}, st |-> st, should_break |-> TRUE]
       ELSE [ready |-> ready, st |-> st, should_break |-> FALSE]

\* _build_final_result that takes every status other than completed as a failure
_build_final_result_strict(outs) ==
    LET status(job_id) ==
            IF outs[job_id].status = "failure" THEN "failed"
            ELSE IF outs[job_id].status = "skipped" THEN "skipped"
            ELSE "completed"
        workflow_failed == \E job_id \in DOMAIN outs : outs[job_id].status # "completed"
    IN [status |-> IF workflow_failed THEN "failed" ELSE "completed",
        jobs |-> [job_id \in DOMAIN outs |->
                    [job_id |-> outs[job_id].job_id,
                     status |-> status(job_id),
                     outputs |-> outs[job_id].outputs,
                     error |-> outs[job_id].error]]]

\* _build_final_result
_build_final_result(outs) ==
    LET status(job_id) ==
            IF outs[job_id].status = "failure" THEN "failed"
            ELSE IF outs[job_id].status = "skipped" THEN "skipped"
            ELSE "completed"
        workflow_failed == \E job_id \in DOMAIN outs : outs[job_id].status = "failure"
    IN [status |-> IF workflow_failed THEN "failed" ELSE "completed",
        jobs |-> [job_id \in DOMAIN outs |->
                    [job_id |-> outs[job_id].job_id,
                     status |-> status(job_id),
                     outputs |-> outs[job_id].outputs,
                     error |-> outs[job_id].error]]]

\* the lists with the elements of S, each once: the orders in which iterating
\* the set `remaining` can produce the ready list
Orders(S) ==
    {f \in [1..Cardinality(S) -> S] : \A i, j \in 1..Cardinality(S) : f[i] = f[j] => i = j}

-----------------------------------------------------------------------------
(* The workflows and executors of the model *)

\* dict(os.environ) at _initialize_execution_state
ProcessEnv == ("HOME" :> "h")

\* a step: id ("" when absent) and run ("" when absent)
Step(id, run) == [id |-> id, run |-> run]

Guards ==
    {<<>>,
     <<NeedsOutEq("a", "k", "v")>>,
     <<NeedsOutNe("a", "k", "v")>>,
     <<EnvEq("JOB_A_K", "v")>>,
     <<NeedsResEq("a", "success")>>,
     <<NeedsResEq("a", "failure"), OrTok, EnvEq("STEP_S_K", "v"), AndTok, NeedsOutEq("b", "k", "w")>>}

GuardsOf(j) ==
    CASE j = "a" -> {<<>>}
      [] j = "b" -> {g \in Guards : Len(g) <= 1 /\ g # <<NeedsResEq("a", "success")>>}
      [] OTHER -> {g \in Guards : g = <<>> \/ Len(g) > 1 \/ g = <<NeedsResEq("a", "success")>>}

StepsOf(j) ==
    CASE j = "a" -> <<Step("s", "cmd"), Step("", "cmd")>>
      [] j = "b" -> <<Step("s", "cmd")>>
      [] OTHER -> <<Step("", ""), Step("t", "cmd")>>

OutputsOf(j) ==
    CASE j = "a" -> {EmptyDict,
                     ("o" :> [kind |-> "steps", step |-> "s", key |-> "k", text |-> ""]),
                     ("K" :> [kind |-> "text", step |-> "", key |-> "", text |-> "x"])}
      [] OTHER -> {EmptyDict}

\* the needs relations over Jobs that validate accepts
ValidNeeds == {needs \in [Jobs -> SUBSET Jobs] : validate(needs) = {}}

\* the validated workflows of the model
Workflows ==
    {[j \in Jobs |-> [needs |-> w[1][j], if_condition |-> w[2][j],
                      steps |-> StepsOf(j), outputs |-> w[3][j]]] :
        w \in ValidNeeds
              \X {g \in [Jobs -> Guards] : \A j \in Jobs : g[j] \in GuardsOf(j)}
              \X {o \in [Jobs -> UNION {OutputsOf(j) : j \in Jobs}] :
                     \A j \in Jobs : o[j] \in OutputsOf(j)}}

\* what a step's command does: fails times a failure, then success emitting emits
Exec(fails, raises, emits) == [fails |-> fails, raises |-> raises, emits |-> emits]

ExecsOf(j) ==
    CASE j = "a" -> {<<Exec(f, FALSE, ("k" :> "v")), Exec(g, FALSE, EmptyDict)>> :
                        <<f, g>> \in (0..(MaxRetries + 1)) \X {0, MaxRetries + 1}}
      [] j = "b" -> {<<Exec(f, FALSE, ("k" :> "w"))>> : f \in {0, MaxRetries + 1}}
      [] OTHER -> {<<Exec(0, FALSE, EmptyDict), Exec(f, TRUE, EmptyDict)>> :
                        f \in {0, MaxRetries + 1}}

Executors == {ex \in [Jobs -> UNION {ExecsOf(j) : j \in Jobs}] :
                 \A j \in Jobs : ex[j] \in ExecsOf(j)}

NoResult == [status |-> None, jobs |-> EmptyDict]

\* no JobWorkflow is running
NoJobRun == [pc |-> "idle"]

\* no function is called on its own
NoCall == [pc |-> "idle"]

-----------------------------------------------------------------------------
(* LocalEngine.run_workflow as a state machine *)

State == [job_outputs |-> job_outputs, env_vars |-> env_vars,
          completed |-> completed, log |-> log]

Init ==
    /\ workflow_def \in Workflows
    /\ executor \in Executors
    /\ errors = {}
    /\ completed = {}
    /\ job_outputs = EmptyDict
    /\ env_vars = ProcessEnv
    /\ ready_jobs = <<>>
    /\ pc = "loop"
    /\ should_break = FALSE
    /\ result = NoResult
    /\ wave = 0
    /\ wave_env = ProcessEnv
    /\ log = <<>>
    /\ not_met = {}
    /\ job_run = NoJobRun
    /\ call = NoCall

\* the loop head: `while len(completed) < len(workflow_def.jobs)` is true and
\* _get_ready_jobs_with_diagnostics runs; `if should_break: break`
GetReadyJobs ==
    /\ pc = "loop"
    /\ Cardinality(completed) < Cardinality(DOMAIN workflow_def)
    /\ \E r \in {_get_ready_jobs_with_diagnostics(workflow_def, wave + 1, State)} :
          /\ ready_jobs' \in Orders(r.ready)
          /\ job_outputs' = r.st.job_outputs
          /\ completed' = r.st.completed
          /\ log' = r.st.log
          /\ should_break' = r.should_break
          /\ pc' = IF r.should_break THEN "build"
                   ELSE IF r.ready = {} THEN "loop" ELSE "for"
    /\ wave' = wave + 1
    /\ wave_env' = env_vars
    /\ not_met' = not_met \cup
                  Range(ready_loop(workflow_def, completed, job_outputs, env_vars,
                                   SetToSeq(DOMAIN workflow_def \ completed),
                                   [ready |-> <<>>, not_met |-> <<>>]).not_met)
    /\ UNCHANGED <<workflow_def, executor, errors, env_vars, result, job_run, call>>

\* one iteration of `for job_id in ready_jobs: await self._execute_job(...)`
ExecuteJob ==
    /\ pc = "for"
    /\ ready_jobs # <<>>
    /\ \E st \in {_execute_job(Head(ready_jobs), workflow_def, executor, MaxRetries,
                                wave, State)} :
          /\ job_outputs' = st.job_outputs
          /\ env_vars' = st.env_vars
          /\ completed' = st.completed
          /\ log' = st.log
    /\ ready_jobs' = Tail(ready_jobs)
    /\ pc' = IF Tail(ready_jobs) = <<>> THEN "loop" ELSE "for"
    /\ UNCHANGED <<workflow_def, executor, errors, should_break, result, wave, wave_env,
                   not_met, job_run, call>>

\* the loop condition is false, or the loop was left by break:
\* `return self._build_final_result(workflow_def, job_outputs)`
BuildFinalResult ==
    /\ \/ pc = "build"
       \/ pc = "loop" /\ ~(Cardinality(completed) < Cardinality(DOMAIN workflow_def))
    /\ result' = _build_final_result(job_outputs)
    /\ pc' = "done"
    /\ UNCHANGED <<workflow_def, executor, errors, completed, job_outputs, env_vars,
                   ready_jobs, should_break, wave, wave_env, log, not_met, job_run, call>>

Next == GetReadyJobs \/ ExecuteJob \/ BuildFinalResult

Spec == Init /\ [][Next]_vars

-----------------------------------------------------------------------------
(* LocalEngine.run_workflow from its first line: the workflow that was      *)
(* loaded may fail validation                                               *)

\* the needs lists of a workflow, which is all that validate reads
NeedsMap(wf) == [j \in DOMAIN wf |-> wf[j].needs]

\* _parse_and_validate_workflow that returns the workflow whatever validate says
_parse_and_validate_workflow_unchecked(wf) ==
    [errors |-> validate(NeedsMap(wf)), raised |-> FALSE]

\* _parse_and_validate_workflow: the errors of validate and whether it raises
_parse_and_validate_workflow(wf) ==
    LET errs == validate(NeedsMap(wf))
    IN [errors |-> errs, raised |-> errs # {}]

\* a job id that no workflow declares
Missing == "d"

\* the workflows load_from_file can return: none, some or all of Jobs, each
\* job with any needs list over the declared and undeclared ids
ParsedWorkflows ==
    UNION {{[j \in D |-> [needs |-> n[j], if_condition |-> <<>>,
                          steps |-> StepsOf(j), outputs |-> EmptyDict]] :
               n \in [D -> SUBSET (Jobs \cup {Missing})]} :
           D \in {{}, {"a"}, {"a", "b"}, Jobs}}

\* executors under which only the second step of job a may fail
LoadExecutors ==
    {ex \in Executors :
        ex["a"][1].fails = 0 /\ ex["b"][1].fails = 0 /\ ex["c"][2].fails = 0}

LoadInit ==
    /\ workflow_def \in ParsedWorkflows
    /\ executor \in LoadExecutors
    /\ errors = {}
    /\ completed = {}
    /\ job_outputs = EmptyDict
    /\ env_vars = ProcessEnv
    /\ ready_jobs = <<>>
    /\ pc = "parse"
    /\ should_break = FALSE
    /\ result = NoResult
    /\ wave = 0
    /\ wave_env = ProcessEnv
    /\ log = <<>>
    /\ not_met = {}
    /\ job_run = NoJobRun
    /\ call = NoCall

\* `workflow_def = self._parse_and_validate_workflow(workflow_file)`: it
\* raises, which ends run_workflow, or run_workflow goes on to its loop
ParseAndValidate ==
    /\ pc = "parse"
    /\ LET r == _parse_and_validate_workflow(workflow_def)
       IN /\ errors' = r.errors
          /\ pc' = IF r.raised THEN "raised" ELSE "loop"
    /\ UNCHANGED <<workflow_def, executor, completed, job_outputs, env_vars, ready_jobs,
                   should_break, result, wave, wave_env, log, not_met, job_run, call>>

LoadNext == ParseAndValidate \/ GetReadyJobs \/ ExecuteJob \/ BuildFinalResult

LoadSpec == LoadInit /\ [][LoadNext]_vars

-----------------------------------------------------------------------------
(* JobWorkflow.run(job_id, job_def, env_vars)                               *)
(*                                                                         *)
(* The state of a run is a record: the arguments job_def and env_vars, the *)
(* locals all_outputs, attempt, step (index of the step of the loop `for   *)
(* step in job_def.steps`) and step_attempt, the position pc ("step": at   *)
(* the head of the body of `for step_attempt in range(step_max)`,          *)
(* "except": in the except block, "returned"), the JobOutput returned and  *)
(* the history calls, one record per execute_activity call.                *)

\* largest LoopConfig.max_iterations of a step of the model
MaxIterations == 3

\* a LoopConfig, and the loop of a job or step that has none
LoopConfig(until, max_iterations) ==
    [set |-> TRUE, until |-> until, max_iterations |-> max_iterations]

NoLoop == [set |-> FALSE, until |-> <<>>, max_iterations |-> 1]

\* `x.loop.max_iterations if x.loop else 1`
max_iterations_of(loop) == IF loop.set THEN loop.max_iterations ELSE 1

\* the end of the loop over the steps for the current step: the next step, or
\* `return JobOutput(job_id, COMPLETED, outputs=all_outputs)`
next_step(st) ==
    IF st.step = Len(st.job_def.steps)
    THEN [st EXCEPT !.pc = "returned",
                    !.output = [status |-> "completed", outputs |-> st.all_outputs,
                                error |-> <<>>]]
    ELSE [st EXCEPT !.step = @ + 1, !.step_attempt = 0]

\* the record of one execute_activity call: where it was made, what it
\* returned, and what evaluate_loop_condition returned if it was called
call_record(st, res, evaluated, until) ==
    [attempt |-> st.attempt, step |-> st.step, step_attempt |-> st.step_attempt,
     success |-> res.success, evaluated |-> evaluated, until |-> until]

\* after_step_attempt without the `break` after a successful call
after_step_attempt_no_break(st, res) ==
    LET step == st.job_def.steps[st.step]
        step_max == max_iterations_of(step.loop)
        until == evaluate_loop_condition(step.loop.until, st.step_attempt + 1, step_max,
                                         res.success, st.env_vars)
        hist == [st EXCEPT !.calls = Append(@, call_record(st, res,
                                        ~res.success /\ step.loop.set,
                                        ~res.success /\ step.loop.set /\ until))]
    IN IF res.success
       THEN LET st1 == [hist EXCEPT
                          !.all_outputs = DictUpdate(@, res.outputs),
                          !.env_vars = IF step.id # ""
                                       THEN _update_step_environment(step.id, res.outputs, @)
                                       ELSE @]
            IN IF st.step_attempt < step_max - 1
               THEN [st1 EXCEPT !.step_attempt = @ + 1]
               ELSE next_step(st1)
       ELSE IF step.loop.set /\ ~until /\ st.step_attempt < step_max - 1
       THEN [hist EXCEPT !.step_attempt = @ + 1]
       ELSE IF st.step_attempt = step_max - 1
       THEN [hist EXCEPT !.pc = "except", !.error = <<"Step failed">>]
       ELSE [hist EXCEPT !.step_attempt = @ + 1]

\* the body of `for step_attempt in range(step_max)` after execute_activity
\* has returned res (its result), up to the next call, the raise or the return
after_step_attempt(st, res) ==
    LET step == st.job_def.steps[st.step]
        step_max == max_iterations_of(step.loop)
        until == evaluate_loop_condition(step.loop.until, st.step_attempt + 1, step_max,
                                         res.success, st.env_vars)
        hist == [st EXCEPT !.calls = Append(@, call_record(st, res,
                                        ~res.success /\ step.loop.set,
                                        ~res.success /\ step.loop.set /\ until))]
    IN IF res.success
       THEN \* all_outputs.update, the STEP_ entries, `break`
            next_step([hist EXCEPT
                         !.all_outputs = DictUpdate(@, res.outputs),
                         !.env_vars = IF step.id # ""
                                      THEN _update_step_environment(step.id, res.outputs, @)
                                      ELSE @])
       ELSE IF step.loop.set /\ ~until /\ st.step_attempt < step_max - 1
       THEN \* `if should_continue and step_attempt < step_max - 1: continue`
            [hist EXCEPT !.step_attempt = @ + 1]
       ELSE IF st.step_attempt = step_max - 1
       THEN \* `raise Exception(f"Step failed: {res.error}")`
            [hist EXCEPT !.pc = "except", !.error = <<"Step failed">>]
       ELSE \* the end of the loop body: the loop goes on with the next step_attempt
            [hist EXCEPT !.step_attempt = @ + 1]

\* the except block of run, up to the next attempt or the return
handle_exception(st) ==
    LET max_attempts == max_iterations_of(st.job_def.loop)
        should_continue == ~evaluate_loop_condition(st.job_def.loop.until, st.attempt + 1,
                                                    max_attempts, FALSE, st.env_vars)
        next_attempt == [st EXCEPT !.attempt = @ + 1, !.all_outputs = EmptyDict,
                                   !.step = 1, !.step_attempt = 0, !.pc = "step"]
    IN IF st.job_def.loop.set /\ should_continue /\ st.attempt < max_attempts - 1
       THEN next_attempt
       ELSE IF st.attempt = max_attempts - 1
       THEN [st EXCEPT !.pc = "returned",
                       !.output = [status |-> "failed", outputs |-> EmptyDict,
                                   error |-> st.error]]
       ELSE next_attempt

\* the until conditions of the model
Untils ==
    {<<>>,
     <<Tok("success()", "", "", "")>>,
     <<Tok("failure()", "", "", "")>>,
     <<Tok("cancelled()", "", "", "")>>,
     <<EnvEq("STEP_S_K", "v")>>,
     <<EnvEq("HOME", "h")>>,
     <<NeedsResEq("a", "success")>>}

\* the job definitions of the model: two steps with a command, the first with
\* id s and any loop, and a job that is tried once or twice
JobDefinitions ==
    {[steps |-> <<[id |-> "s", run |-> "cmd", loop |-> l1],
                  [id |-> "", run |-> "cmd", loop |-> l2]>>,
      loop |-> lj] :
        l1 \in {NoLoop} \cup {LoopConfig(u, n) : u \in Untils, n \in 1..MaxIterations},
        l2 \in {NoLoop, LoopConfig(<<>>, 2)},
        lj \in {NoLoop, LoopConfig(<<>>, 2), LoopConfig(<<Tok("failure()", "", "", "")>>, 2),
                LoopConfig(<<EnvEq("STEP_S_K", "v")>>, 2)}}

\* what execute_activity(execute_job_step, ...) can return for a command
StepResults == {[success |-> TRUE, outputs |-> ("k" :> "v")],
                [success |-> FALSE, outputs |-> EmptyDict]}

JobInit ==
    /\ job_run \in {[job_def |-> jd, env_vars |-> ProcessEnv, all_outputs |-> EmptyDict,
                     attempt |-> 0, step |-> 1, step_attempt |-> 0, pc |-> "step",
                     output |-> [status |-> None, outputs |-> EmptyDict, error |-> <<>>],
                     error |-> <<>>, calls |-> <<>>] : jd \in JobDefinitions}
    /\ workflow_def = EmptyDict
    /\ executor = EmptyDict
    /\ errors = {}
    /\ completed = {}
    /\ job_outputs = EmptyDict
    /\ env_vars = ProcessEnv
    /\ ready_jobs = <<>>
    /\ pc = "idle"
    /\ should_break = FALSE
    /\ result = NoResult
    /\ wave = 0
    /\ wave_env = ProcessEnv
    /\ log = <<>>
    /\ not_met = {}
    /\ call = NoCall

\* one pass of the body of `for step_attempt in range(step_max)`: the command
\* is substituted, execute_activity is awaited and its result handled
StepAttempt ==
    /\ job_run.pc = "step"
    /\ \E r \in StepResults : job_run' = after_step_attempt(job_run, r)
    /\ UNCHANGED <<workflow_def, executor, errors, completed, job_outputs, env_vars,
                   ready_jobs, pc, should_break, result, wave, wave_env, log, not_met,
                   call>>

\* `except Exception as e:` after a step has raised
HandleException ==
    /\ job_run.pc = "except"
    /\ job_run' = handle_exception(job_run)
    /\ UNCHANGED <<workflow_def, executor, errors, completed, job_outputs, env_vars,
                   ready_jobs, pc, should_break, result, wave, wave_env, log, not_met,
                   call>>

JobNext == StepAttempt \/ HandleException

JobSpec == JobInit /\ [][JobNext]_vars

-----------------------------------------------------------------------------
(* A JobDefinition built from the dict the YAML gives, then               *)
(* JobWorkflow.run on it.  The loop of the dict is [given, kwargs]: given   *)
(* is FALSE for a job without `loop:` (None), kwargs the dict under it.     *)

\* LoopConfig called with the keyword arguments kwargs: the __init__ of the
\* dataclass with the fields until and max_iterations; a keyword that is not
\* a field raises TypeError
LoopConfig_init(kwargs) ==
    IF DOMAIN kwargs \subseteq {"until", "max_iterations"}
    THEN [raised |-> FALSE,
          value |-> LoopConfig(DictGet(kwargs, "until", <<>>),
                               DictGet(kwargs, "max_iterations", 1))]
    ELSE [raised |-> TRUE, value |-> NoLoop]

\* JobDefinition.__post_init__ on the loop: a dict becomes the LoopConfig
\* of its keywords, a job without loop keeps None
JobDefinition_post_init(job_data) ==
    IF ~job_data.loop.given
    THEN [raised |-> FALSE, value |-> [steps |-> job_data.steps, loop |-> NoLoop]]
    ELSE [raised |-> LoopConfig_init(job_data.loop.kwargs).raised,
          value |-> [steps |-> job_data.steps,
                     loop |-> LoopConfig_init(job_data.loop.kwargs).value]]

\* the loop dicts of the model; every foreach string holds at least one item
LoopData ==
    {[given |-> FALSE, kwargs |-> EmptyDict]}
    \cup {[given |-> TRUE, kwargs |-> kw] :
             kw \in {("max_iterations" :> 2),
                     ("until" :> <<Tok("failure()", "", "", "")>>) @@ ("max_iterations" :> 2),
                     ("foreach" :> "i j"),
                     ("foreach" :> "i\nj\ni"),
                     ("foreach" :> "i j") @@ ("max_iterations" :> 3)}}

\* the job dicts of the model: two steps with a command, the first with id s
JobData ==
    {[steps |-> <<[id |-> "s", run |-> "cmd", loop |-> l1],
                  [id |-> "", run |-> "cmd", loop |-> NoLoop]>>,
      loop |-> lj] :
        l1 \in {NoLoop, LoopConfig(<<>>, 2), LoopConfig(<<Tok("failure()", "", "", "")>>, 2)},
        lj \in LoopData}

BuildInit ==
    /\ call \in {[pc |-> "construct", job_data |-> jd] : jd \in JobData}
    /\ job_run = NoJobRun
    /\ workflow_def = EmptyDict
    /\ executor = EmptyDict
    /\ errors = {}
    /\ completed = {}
    /\ job_outputs = EmptyDict
    /\ env_vars = ProcessEnv
    /\ ready_jobs = <<>>
    /\ pc = "idle"
    /\ should_break = FALSE
    /\ result = NoResult
    /\ wave = 0
    /\ wave_env = ProcessEnv
    /\ log = <<>>
    /\ not_met = {}

\* JobDefinition, called with job_data, raises, or returns the job_def that
\* JobWorkflow.run is then called with
Construct ==
    /\ call.pc = "construct"
    /\ IF JobDefinition_post_init(call.job_data).raised
       THEN /\ call' = [call EXCEPT !.pc = "raised"]
            /\ UNCHANGED job_run
       ELSE /\ call' = [call EXCEPT !.pc = "constructed"]
            /\ job_run' = [job_def |-> JobDefinition_post_init(call.job_data).value,
                           env_vars |-> ProcessEnv, all_outputs |-> EmptyDict,
                           attempt |-> 0, step |-> 1, step_attempt |-> 0, pc |-> "step",
                           output |-> [status |-> None, outputs |-> EmptyDict,
                                       error |-> <<>>],
                           error |-> <<>>, calls |-> <<>>]
    /\ UNCHANGED <<workflow_def, executor, errors, completed, job_outputs, env_vars,
                   ready_jobs, pc, should_break, result, wave, wave_env, log, not_met>>

\* StepAttempt and HandleException leave call alone
BuildNext == Construct \/ StepAttempt \/ HandleException

BuildSpec == BuildInit /\ [][BuildNext]_vars

-----------------------------------------------------------------------------
(* ConditionEvaluator.evaluate_job_condition called on its own              *)

\* largest number of " && " / " || " in a condition of the model
MaxOperators == 2

\* the atoms of the conditions: one of each form evaluate_job_condition
\* recognises
Atoms ==
    {NeedsOutEq("a", "k", "v"), NeedsResEq("a", "success"), EnvEq("X", "1"),
     NeedsOutNe("b", "k", "w"), NeedsResNe("b", "failure")}

\* atom, operator, atom, ..., atom with 1..MaxOperators operators
Conditions ==
    UNION {{c \in [1..(2 * n + 1) -> Atoms \cup {AndTok, OrTok}] :
               \A i \in 1..(2 * n + 1) :
                   IF i % 2 = 1 THEN c[i] \in Atoms ELSE c[i] \in {AndTok, OrTok}} :
           n \in 1..MaxOperators}

\* job_outputs and env_vars under which the atoms take every combination of
\* values
ConditionOutputs ==
    {("a" :> _create_job_output("a", sa, ("k" :> ka), <<>>))
     @@ ("b" :> _create_job_output("b", sb, ("k" :> kb), <<>>)) :
        sa \in {"completed", "failure"}, ka \in {"v", "u"},
        sb \in {"completed", "failure"}, kb \in {"w", "u"}}

ConditionEnvs == {("X" :> "1"), ("X" :> "0"), EmptyDict}

CondInit ==
    /\ call \in {[pc |-> "call", condition |-> c, job_outputs |-> o, env_vars |-> e,
                  ret |-> FALSE, evaluated |-> <<>>] :
                    c \in Conditions, o \in ConditionOutputs, e \in ConditionEnvs}
    /\ job_run = NoJobRun
    /\ workflow_def = EmptyDict
    /\ executor = EmptyDict
    /\ errors = {}
    /\ completed = {}
    /\ job_outputs = EmptyDict
    /\ env_vars = ProcessEnv
    /\ ready_jobs = <<>>
    /\ pc = "idle"
    /\ should_break = FALSE
    /\ result = NoResult
    /\ wave = 0
    /\ wave_env = ProcessEnv
    /\ log = <<>>
    /\ not_met = {}

\* evaluate_job_condition(condition, job_outputs, env_vars) returns
EvaluateJobCondition ==
    /\ call.pc = "call"
    /\ call' = [call EXCEPT
                  !.pc = "returned",
                  !.ret = evaluate_job_condition(call.condition, call.job_outputs,
                                                 call.env_vars),
                  !.evaluated = IF branch(call.condition) = "complex"
                                THEN _evaluate_complex_condition(
                                         strip(call.condition), call.job_outputs,
                                         call.env_vars).evaluated
                                ELSE <<>>]
    /\ UNCHANGED <<workflow_def, executor, errors, completed, job_outputs, env_vars,
                   ready_jobs, pc, should_break, result, wave, wave_env, log, not_met,
                   job_run>>

CondNext == EvaluateJobCondition

CondSpec == CondInit /\ [][CondNext]_vars

-----------------------------------------------------------------------------
(* ConditionEvaluator.evaluate_job_condition on the forms of a guard *)

\* the function names evaluate_job_condition compares the condition with
Functions == {Tok("always()", "", "", ""), Tok("success()", "", "", ""),
              Tok("failure()", "", "", ""), Tok("cancelled()", "", "", "")}

\* one text of each form the patterns are written for, over a job that can
\* be recorded ("a") or not ("g"), a key that can be there ("k") or not ("m"),
\* and values that can be met or not
GuardAtoms ==
    {NeedsOutEq(j, k, v) : j \in {"a", "g"}, k \in {"k", "m"}, v \in {"v", "u"}}
    \cup {NeedsOutNe(j, k, v) : j \in {"a", "g"}, k \in {"k", "m"}, v \in {"v", "u"}}
    \cup {NeedsResEq(j, v) : j \in {"a", "g"}, v \in {"success", "failure", "completed"}}
    \cup {NeedsResNe(j, v) : j \in {"a", "g"}, v \in {"success", "failure", "completed"}}
    \cup {EnvEq(x, v) : x \in {"X", "Y"}, v \in {"1", "0"}}
    \cup {EnvNe(x, v) : x \in {"X", "Y"}, v \in {"1", "0"}}

\* the conditions: empty, whitespace, a text of no recognised form, a
\* function name or an atom, bare or with whitespace around it, and two atoms
\* joined by " && " or " || " of which one is env.X != 'V'
GuardConditions ==
    {<<>>, <<WsTok>>}
    \cup {<<t>> : t \in Functions \cup GuardAtoms \cup {UnknownTok}}
    \cup {<<WsTok, t, WsTok>> : t \in Functions \cup GuardAtoms \cup {UnknownTok}}
    \cup {<<t, op, u>> : t \in {EnvNe(x, v) : x \in {"X", "Y"}, v \in {"1", "0"}},
                          op \in {AndTok, OrTok},
                          u \in {EnvEq("X", "1"), NeedsOutEq("a", "k", "v"), UnknownTok}}
    \cup {<<u, op, t>> : t \in {EnvNe(x, v) : x \in {"X", "Y"}, v \in {"1", "0"}},
                          op \in {AndTok, OrTok},
                          u \in {EnvEq("X", "1"), NeedsOutEq("a", "k", "v"), UnknownTok}}

\* job_outputs: nothing recorded, or job a recorded with any status the engine
\* stores and with or without the output k
GuardOutputs ==
    {EmptyDict}
    \cup {("a" :> _create_job_output("a", st, o, <<>>)) :
             st \in {"completed", "failure", "skipped"},
             o \in {EmptyDict, ("k" :> "v"), ("k" :> "u")}}

GuardEnvs == {("X" :> "1"), ("X" :> "0"), EmptyDict}

GuardInit ==
    /\ call \in {[pc |-> "call", condition |-> c, job_outputs |-> o, env_vars |-> e,
                  ret |-> FALSE, evaluated |-> <<>>] :
                    c \in GuardConditions, o \in GuardOutputs, e \in GuardEnvs}
    /\ job_run = NoJobRun
    /\ workflow_def = EmptyDict
    /\ executor = EmptyDict
    /\ errors = {}
    /\ completed = {}
    /\ job_outputs = EmptyDict
    /\ env_vars = ProcessEnv
    /\ ready_jobs = <<>>
    /\ pc = "idle"
    /\ should_break = FALSE
    /\ result = NoResult
    /\ wave = 0
    /\ wave_env = ProcessEnv
    /\ log = <<>>
    /\ not_met = {}

GuardSpec == GuardInit /\ [][CondNext]_vars

-----------------------------------------------------------------------------
(* VariableSubstitution.substitute(text, variables)                        *)
(*                                                                         *)
(* A text is a sequence of characters.  variables is a dict in insertion   *)
(* order: a sequence of <<name, value>> pairs with distinct names, names   *)
(* and values being texts.                                                 *)

\* the longest text substitute is called with
MaxText == 4

Chars == {"$", "{", "}", "A", "B"}

\* str.replace(old, new) for a non-empty old: the occurrences of old from
\* left to right, none overlapping another
RECURSIVE replace(_, _, _)
replace(s, old, new) ==
    IF Len(s) < Len(old) THEN s
    ELSE IF SubSeq(s, 1, Len(old)) = old
    THEN new \o replace(SubSeq(s, Len(old) + 1, Len(s)), old, new)
    ELSE <<Head(s)>> \o replace(Tail(s), old, new)

\* re.findall(r"\$\{([^}]+)\}", s): the group of every match from left to
\* right; a match is "${", then the longest run of one or more characters
\* other than "}", then "}"
RECURSIVE findall(_)
findall(s) ==
    IF Len(s) < 4 THEN <<>>
    ELSE IF /\ s[1] = "$" /\ s[2] = "{" /\ s[3] # "}"
            /\ \E j \in 4..Len(s) : s[j] = "}"
    THEN LET j == CHOOSE n \in 4..Len(s) :
                     s[n] = "}" /\ \A m \in 4..(n - 1) : s[m] # "}"
         IN <<SubSeq(s, 3, j - 1)>> \o findall(SubSeq(s, j + 1, Len(s)))
    ELSE findall(Tail(s))

\* f"${{{var_name}}}" and f"${var_name}"
Braced(var_name) == <<"$", "{">> \o var_name \o <<"}">>
Plain(var_name) == <<"$">> \o var_name

\* os.environ of the process
Environ == (<<"B">> :> <<"e">>)

\* the names that are keys of variables
Keys(variables) == {variables[i][1] : i \in 1..Len(variables)}

\* the loop `for var_name, value in variables.items()` over the pairs left
RECURSIVE substitute_variables(_, _)
substitute_variables(res, pairs) ==
    IF pairs = <<>> THEN res
    ELSE substitute_variables(
             replace(replace(res, Braced(Head(pairs)[1]), Head(pairs)[2]),
                     Plain(Head(pairs)[1]), Head(pairs)[2]),
             Tail(pairs))

\* the loop `for var_name in matches` over the matches left
RECURSIVE substitute_environ(_, _, _)
substitute_environ(res, matches, variables) ==
    IF matches = <<>> THEN res
    ELSE substitute_environ(
             IF Head(matches) \notin Keys(variables)
             THEN replace(res, Braced(Head(matches)), DictGet(Environ, Head(matches), <<>>))
             ELSE res,
             Tail(matches), variables)

\* VariableSubstitution.substitute
substitute(text, variables) ==
    IF text = <<>> \/ variables = <<>> THEN text
    ELSE substitute_environ(substitute_variables(text, variables),
                            findall(substitute_variables(text, variables)),
                            variables)

\* the texts: every sequence of at most MaxText characters
Texts == UNION {[1..n -> Chars] : n \in 0..MaxText}

\* the values a variable can have: empty, a text without "$", and references
\* to the variables
Values == {<<>>, <<"v">>, <<"$", "A">>, <<"$", "{", "B", "}">>}

\* the variable maps: over the names A and B, in either insertion order
VariableMaps ==
    {<<>>}
    \cup {<<<<n, v>>>> : n \in {<<"A">>, <<"B">>}, v \in Values}
    \cup {vs \in {<<<<n, v>>, <<m, w>>>> : n \in {<<"A">>, <<"B">>}, m \in {<<"A">>, <<"B">>},
                                           v \in Values, w \in Values} :
             vs[1][1] # vs[2][1]}

SubstInit ==
    /\ call \in {[pc |-> "substitute", text |-> t, variables |-> v,
                  ret |-> <<>>, again |-> <<>>] : t \in Texts, v \in VariableMaps}
    /\ job_run = NoJobRun
    /\ workflow_def = EmptyDict
    /\ executor = EmptyDict
    /\ errors = {}
    /\ completed = {}
    /\ job_outputs = EmptyDict
    /\ env_vars = ProcessEnv
    /\ ready_jobs = <<>>
    /\ pc = "idle"
    /\ should_break = FALSE
    /\ result = NoResult
    /\ wave = 0
    /\ wave_env = ProcessEnv
    /\ log = <<>>
    /\ not_met = {}

\* substitute(text, variables) returns
Substitute ==
    /\ call.pc = "substitute"
    /\ call' = [call EXCEPT !.pc = "substituted",
                            !.ret = substitute(call.text, call.variables)]
    /\ UNCHANGED <<workflow_def, executor, errors, completed, job_outputs, env_vars,
                   ready_jobs, pc, should_break, result, wave, wave_env, log, not_met,
                   job_run>>

\* substitute(ret, variables), on what the first call returned, returns
SubstituteAgain ==
    /\ call.pc = "substituted"
    /\ call' = [call EXCEPT !.pc = "resubstituted",
                            !.again = substitute(call.ret, call.variables)]
    /\ UNCHANGED <<workflow_def, executor, errors, completed, job_outputs, env_vars,
                   ready_jobs, pc, should_break, result, wave, wave_env, log, not_met,
                   job_run>>

SubstNext == Substitute \/ SubstituteAgain

SubstSpec == SubstInit /\ [][SubstNext]_vars

-----------------------------------------------------------------------------
(* BashExecutor._parse_special_outputs(stdout)                             *)
(*                                                                         *)
(* stdout is a sequence of lines (stdout.split("\n")), a line a sequence   *)
(* of characters; a line that is one of the three sentinels is written as  *)
(* the one-element sequence of its text.                                   *)

\* the longest value of a KEY=VALUE pair
MaxValue == 2

OutputSentinel == <<"=== GITHUB_OUTPUT ===">>
EnvSentinel == <<"=== GITHUB_ENV ===">>
EndSentinel == <<"=== END ===">>

\* str.strip() on a sequence of characters
RECURSIVE str_strip(_)
str_strip(s) ==
    IF s = <<>> THEN s
    ELSE IF Head(s) = " " THEN str_strip(Tail(s))
    ELSE IF s[Len(s)] = " " THEN str_strip(SubSeq(s, 1, Len(s) - 1))
    ELSE s

\* line.split("=", 1) that splits at the last "=" of the line
split_last(line) ==
    LET i == CHOOSE n \in 1..Len(line) :
                 line[n] = "=" /\ \A m \in (n + 1)..Len(line) : line[m] # "="
    IN <<SubSeq(line, 1, i - 1), SubSeq(line, i + 1, Len(line))>>

\* line.split("=", 1) for a line with "=" in it: the texts before and after
\* its first "="
split_first(line) ==
    LET i == CHOOSE n \in 1..Len(line) :
                 line[n] = "=" /\ \A m \in 1..(n - 1) : line[m] # "="
    IN <<SubSeq(line, 1, i - 1), SubSeq(line, i + 1, Len(line))>>

\* the loop `for line in lines` over the lines left; st holds outputs,
\* in_output_section and in_env_section
RECURSIVE parse_lines(_, _)
parse_lines(lines, st) ==
    IF lines = <<>> THEN st.outputs
    ELSE LET line == str_strip(Head(lines))
         IN IF line = OutputSentinel
            THEN parse_lines(Tail(lines), [st EXCEPT !.in_output_section = TRUE,
                                                     !.in_env_section = FALSE])
            ELSE IF line = EnvSentinel
            THEN parse_lines(Tail(lines), [st EXCEPT !.in_output_section = FALSE,
                                                     !.in_env_section = TRUE])
            ELSE IF line = EndSentinel
            THEN parse_lines(Tail(lines), [st EXCEPT !.in_output_section = FALSE,
                                                     !.in_env_section = FALSE])
            ELSE IF /\ st.in_output_section \/ st.in_env_section
                    /\ \E i \in 1..Len(line) : line[i] = "="
            THEN parse_lines(Tail(lines),
                     [st EXCEPT !.outputs =
                         (str_strip(split_first(line)[1]) :> str_strip(split_first(line)[2]))
                         @@ @])
            ELSE parse_lines(Tail(lines), st)

\* _parse_special_outputs
_parse_special_outputs(stdout) ==
    parse_lines(stdout, [outputs |-> EmptyDict, in_output_section |-> FALSE,
                         in_env_section |-> FALSE])

\* the line `echo "KEY=VALUE"` appends to $GITHUB_OUTPUT or $GITHUB_ENV
emit_line(pair) == pair[1] \o <<"=">> \o pair[2]

\* result.stdout of the script of BashExecutor.execute: what the command
\* printed, then the two files between the sentinels, then the empty text
\* after the last newline; pairs are the KEY=VALUE pairs in the order
\* written, the first n of them to $GITHUB_OUTPUT and the others to $GITHUB_ENV
emit(printed, pairs, n) ==
    printed
    \o <<OutputSentinel>> \o [i \in 1..n |-> emit_line(pairs[i])]
    \o <<EnvSentinel>> \o [i \in 1..(Len(pairs) - n) |-> emit_line(pairs[n + i])]
    \o <<EndSentinel, <<>>>>

\* the keys: non-empty, without "=", with or without whitespace at an end
PairKeys == {<<"k">>, <<"j">>, <<" ", "k">>, <<"j", " ">>}

\* the values: every text of at most MaxValue characters, "=" and
\* whitespace among them
PairValues == UNION {[1..n -> {"v", "=", " "}] : n \in 0..MaxValue}

\* the lists of at most two pairs with distinct keys
PairLists ==
    {<<>>}
    \cup {<<<<k, v>>>> : k \in PairKeys, v \in PairValues}
    \cup {ps \in {<<<<k, v>>, <<j, w>>>> : k \in PairKeys, j \in PairKeys,
                                           v \in PairValues, w \in PairValues} :
             ps[1][1] # ps[2][1]}

\* what the command prints itself: nothing, a line with "=" or one without
Printed == {<<>>, <<<<"k", "=", "p">>>>, <<<<"p">>, <<"j", "=">>>>}

\* the map m of a list of pairs with distinct keys
MapOf(pairs) ==
    [k \in {pairs[i][1] : i \in 1..Len(pairs)} |->
        pairs[CHOOSE i \in 1..Len(pairs) : pairs[i][1] = k][2]]

ParseInit ==
    /\ \E ps \in PairLists, pr \in Printed :
          \E n \in 0..Len(ps) :
              call = [pc |-> "parse", pairs |-> ps, m |-> MapOf(ps),
                      stdout |-> emit(pr, ps, n), ret |-> EmptyDict]
    /\ job_run = NoJobRun
    /\ workflow_def = EmptyDict
    /\ executor = EmptyDict
    /\ errors = {}
    /\ completed = {}
    /\ job_outputs = EmptyDict
    /\ env_vars = ProcessEnv
    /\ ready_jobs = <<>>
    /\ pc = "idle"
    /\ should_break = FALSE
    /\ result = NoResult
    /\ wave = 0
    /\ wave_env = ProcessEnv
    /\ log = <<>>
    /\ not_met = {}

\* _parse_special_outputs(result.stdout) returns
ParseSpecialOutputs ==
    /\ call.pc = "parse"
    /\ call' = [call EXCEPT !.pc = "parsed",
                            !.ret = _parse_special_outputs(call.stdout)]
    /\ UNCHANGED <<workflow_def, executor, errors, completed, job_outputs, env_vars,
                   ready_jobs, pc, should_break, result, wave, wave_env, log, not_met,
                   job_run>>

ParseNext == ParseSpecialOutputs

ParseSpec == ParseInit /\ [][ParseNext]_vars

-----------------------------------------------------------------------------
(* LocalEngine._execute_step_with_retry step by step, for a job of one step: *)
(* every executor.execute call and every backoff sleep is a state           *)

\* largest Config.max_retries of the model (Config.max_retries is any int)
MaxConfigRetries == 7

\* BashExecutor(timeout=30)
timeout == 30

\* what one executor.execute call does: the command exits with zero, exits
\* with non-zero, runs into the timeout, or the executor raises
Hows == {"zero", "nonzero", "timeout", "raise"}

\* the (success, stdout, stderr, env_updates) BashExecutor.execute returns;
\* raised is TRUE when the call raises instead of returning
execute_returns(how) ==
    CASE how = "zero" ->
           [raised |-> FALSE, success |-> TRUE, stderr |-> <<>>,
            env_updates |-> [k |-> "v"]]
      [] how = "nonzero" ->
           [raised |-> FALSE, success |-> FALSE, stderr |-> <<"stderr">>,
            env_updates |-> EmptyDict]
      [] how = "timeout" ->
           [raised |-> FALSE, success |-> FALSE, stderr |-> <<"Timeout after", timeout>>,
            env_updates |-> EmptyDict]
      [] how = "raise" ->
           [raised |-> TRUE, success |-> FALSE, stderr |-> <<"e">>,
            env_updates |-> EmptyDict]

\* asyncio.sleep(2**attempt)
backoff(attempt) == 2 ^ attempt

\* the except branch left out: the exception leaves _execute_step_with_retry,
\* _execute_job_steps, _execute_job and run_workflow, none of which catches it
on_exception_propagates(c, e) == [c EXCEPT !.pc = "raised"]

\* `except Exception as e:` of _execute_step_with_retry
on_exception(c, e) ==
    IF c.attempt = c.max_retries
    THEN [c EXCEPT !.pc = "returned",
                   !.ret = [outputs |-> EmptyDict, succeeded |-> FALSE,
                            error |-> <<"Execution error after", c.max_retries + 1,
                                        "attempts">> \o e]]
    ELSE [c EXCEPT !.pc = "sleep"]

\* the try block of _execute_step_with_retry after executor.execute returned r
on_return(c, r) ==
    IF r.success
    THEN [c EXCEPT !.pc = "returned",
                   !.ret = [outputs |-> r.env_updates, succeeded |-> TRUE,
                            error |-> <<>>]]
    ELSE IF c.attempt < c.max_retries
    THEN [c EXCEPT !.pc = "sleep"]
    ELSE [c EXCEPT !.pc = "returned",
                   !.ret = [outputs |-> EmptyDict, succeeded |-> FALSE,
                            error |-> <<"Command failed after", c.max_retries + 1,
                                        "attempts">> \o r.stderr]]

RetryInit ==
    /\ call \in {[pc |-> "execute", max_retries |-> m, attempt |-> 0, calls |-> 0,
                  slept |-> <<>>, last |-> None,
                  ret |-> [outputs |-> EmptyDict, succeeded |-> FALSE, error |-> <<>>],
                  job_output |-> None] : m \in 0..MaxConfigRetries}
    /\ job_run = NoJobRun
    /\ workflow_def = EmptyDict
    /\ executor = EmptyDict
    /\ errors = {}
    /\ completed = {}
    /\ job_outputs = EmptyDict
    /\ env_vars = ProcessEnv
    /\ ready_jobs = <<>>
    /\ pc = "idle"
    /\ should_break = FALSE
    /\ result = NoResult
    /\ wave = 0
    /\ wave_env = ProcessEnv
    /\ log = <<>>
    /\ not_met = {}

RetryUnchanged ==
    UNCHANGED <<workflow_def, executor, errors, completed, job_outputs, env_vars,
                ready_jobs, pc, should_break, result, wave, wave_env, log, not_met,
                job_run>>

\* one pass of `for attempt in range(max_retries + 1)` up to its return or
\* its sleep
ExecuteAttempt ==
    /\ call.pc = "execute"
    /\ \E how \in Hows :
          call' = IF execute_returns(how).raised
                  THEN on_exception([call EXCEPT !.calls = @ + 1, !.last = how],
                                    execute_returns(how).stderr)
                  ELSE on_return([call EXCEPT !.calls = @ + 1, !.last = how],
                                 execute_returns(how))
    /\ RetryUnchanged

\* `await asyncio.sleep(2**attempt)` and the next value of attempt; the line
\* after the loop when the range is used up
Sleep ==
    /\ call.pc = "sleep"
    /\ call' = IF call.attempt + 1 < call.max_retries + 1
               THEN [call EXCEPT !.pc = "execute", !.attempt = @ + 1,
                                 !.slept = Append(@, backoff(call.attempt))]
               ELSE [call EXCEPT !.pc = "returned", !.attempt = @ + 1,
                                 !.slept = Append(@, backoff(call.attempt)),
                                 !.ret = [outputs |-> EmptyDict, succeeded |-> FALSE,
                                          error |-> <<"Unknown execution error">>]]
    /\ RetryUnchanged

\* _execute_job_steps and _execute_job after the step returned: the job's
\* entry of job_outputs
FinishJob ==
    /\ call.pc = "returned"
    /\ call' = [call EXCEPT
                  !.pc = "done",
                  !.job_output =
                      _create_job_output("a",
                          IF call.ret.succeeded THEN "completed" ELSE "failure",
                          IF call.ret.succeeded THEN call.ret.outputs ELSE EmptyDict,
                          IF call.ret.succeeded THEN None ELSE call.ret.error)]
    /\ RetryUnchanged

RetryNext == ExecuteAttempt \/ Sleep \/ FinishJob

RetrySpec == RetryInit /\ [][RetryNext]_vars

-----------------------------------------------------------------------------
(* LocalEngine.run_workflow on workflows of two jobs whose steps emit pairs  *)
(* on both side channels: job b needs job a                                  *)

\* the env_updates of a successful command: _parse_special_outputs puts the
\* pairs of the GITHUB_OUTPUT section and then those of the GITHUB_ENV section
\* into one dict
env_updates_of(github_output, github_env) == DictUpdate(github_output, github_env)

\* what a step's command does, with the pairs it writes to each side channel
StepExec(fails, github_output, github_env) ==
    [fails |-> fails, raises |-> FALSE,
     emits |-> env_updates_of(github_output, github_env),
     github_output |-> github_output, github_env |-> github_env]

\* job a: two steps with a command, each with or without an id, and one
\* declared output or none
StepsWorkflows ==
    {("a" :> [needs |-> {}, if_condition |-> <<>>,
              steps |-> <<Step(id1, "cmd"), Step(id2, "cmd")>>, outputs |-> o]) @@
     ("b" :> [needs |-> {"a"}, if_condition |-> <<>>,
              steps |-> <<Step("", "cmd")>>, outputs |-> EmptyDict]) :
        id1 \in {"s", ""}, id2 \in {"t", ""},
        o \in {EmptyDict,
               ("o" :> [kind |-> "steps", step |-> "s", key |-> "k", text |-> ""]),
               ("o" :> [kind |-> "steps", step |-> "t", key |-> "k", text |-> ""])}}

StepsExecutors ==
    {("a" :> <<StepExec(f1, o1, e1), StepExec(f2, o2, EmptyDict)>>) @@
     ("b" :> <<StepExec(0, EmptyDict, EmptyDict)>>) :
        f1 \in {0, MaxRetries + 1}, o1 \in {EmptyDict, ("k" :> "v")},
        e1 \in {EmptyDict, ("N" :> "1")},
        f2 \in {0, MaxRetries + 1}, o2 \in {EmptyDict, ("k" :> "x")}}

StepsInit ==
    /\ workflow_def \in StepsWorkflows
    /\ executor \in StepsExecutors
    /\ errors = {}
    /\ completed = {}
    /\ job_outputs = EmptyDict
    /\ env_vars = ProcessEnv
    /\ ready_jobs = <<>>
    /\ pc = "loop"
    /\ should_break = FALSE
    /\ result = NoResult
    /\ wave = 0
    /\ wave_env = ProcessEnv
    /\ log = <<>>
    /\ not_met = {}
    /\ job_run = NoJobRun
    /\ call = NoCall

StepsSpec == StepsInit /\ [][Next]_vars

-----------------------------------------------------------------------------
(* BashExecutor.execute step by step: the files it and its script create     *)

\* the file NamedTemporaryFile(suffix=".sh", delete=False) creates
ScriptFile == "script.sh"

\* the files the script creates, in this order, by
\* `export GITHUB_OUTPUT=$(mktemp)`, `export GITHUB_ENV=$(mktemp)` and
\* `export GITHUB_STEP_SUMMARY=$(mktemp)`
SideChannelFiles == <<"GITHUB_OUTPUT", "GITHUB_ENV", "GITHUB_STEP_SUMMARY">>

\* the commands of the model, as texts: empty, blank, one without and one with
\* a variable reference
Commands == {<<>>, <<" ">>, <<"c">>, <<"$", "A">>}

\* `not command.strip()`
is_blank(command) == str_strip(command) = <<>>

\* the env_vars arguments of the model: none (`env_vars or {}`) and A=v
EnvArgs == {<<>>, <<<<<<"A">>, <<"v">>>>>>}

\* what the child process does: exits with zero, exits with non-zero at the
\* command (set -e), runs longer than the timeout, or cannot be started
\* (subprocess.run raises OSError)
ChildOutcomes == {"zero", "nonzero", "timeout", "oserror"}

\* the mktemp files that exist when the child has ended that way: all three
\* lines run before the command; a child that did not start created none and
\* a child killed at the timeout got through some of them
created_by(how) ==
    CASE how \in {"zero", "nonzero"} -> {Range(SideChannelFiles)}
      [] how = "timeout" -> {{SideChannelFiles[i] : i \in 1..n} : n \in 0..3}
      [] OTHER -> {{}}

ExecNoReturn == [success |-> FALSE, stdout |-> <<>>, stderr |-> <<>>, env_updates |-> EmptyDict]

ExecInit ==
    /\ \E c \in Commands, e \in EnvArgs, o \in {EmptyDict, ("k" :> "v")},
          g \in {EmptyDict, ("N" :> "1")} :
          call = [pc |-> "enter", command |-> c, env_vars |-> e,
                  github_output |-> o, github_env |-> g,
                  files |-> {}, children |-> 0, how |-> None, ret |-> ExecNoReturn]
    /\ job_run = NoJobRun
    /\ workflow_def = EmptyDict
    /\ executor = EmptyDict
    /\ errors = {}
    /\ completed = {}
    /\ job_outputs = EmptyDict
    /\ env_vars = ProcessEnv
    /\ ready_jobs = <<>>
    /\ pc = "idle"
    /\ should_break = FALSE
    /\ result = NoResult
    /\ wave = 0
    /\ wave_env = ProcessEnv
    /\ log = <<>>
    /\ not_met = {}

\* `if not command.strip(): return True, "", "", {}`, else the substitution
\* `if env_vars: command = VariableSubstitution.substitute(command, env_vars)`
Enter ==
    /\ call.pc = "enter"
    /\ call' = IF is_blank(call.command)
               THEN [call EXCEPT !.pc = "returned",
                                 !.ret = [success |-> TRUE, stdout |-> <<>>,
                                          stderr |-> <<>>, env_updates |-> EmptyDict]]
               ELSE [call EXCEPT !.pc = "try",
                                 !.command = IF call.env_vars # <<>>
                                             THEN substitute(@, call.env_vars)
                                             ELSE @]
    /\ RetryUnchanged

\* `with tempfile.NamedTemporaryFile(..., delete=False) as f:` writes the
\* script, or raises before the file exists
CreateScript ==
    /\ call.pc = "try"
    /\ \E created \in BOOLEAN :
          call' = IF created
                  THEN [call EXCEPT !.pc = "run", !.files = @ \cup {ScriptFile}]
                  ELSE [call EXCEPT !.pc = "except", !.how = "oserror"]
    /\ RetryUnchanged

\* os.chmod and subprocess.run([script_path], timeout=self.timeout, ...)
RunScript ==
    /\ call.pc = "run"
    /\ \E how \in ChildOutcomes :
          \E created \in created_by(how) :
              call' = [call EXCEPT
                         !.pc = CASE how \in {"zero", "nonzero"} -> "cleanup"
                                  [] how = "timeout" -> "timeout"
                                  [] OTHER -> "except",
                         !.how = how,
                         !.children = IF how = "oserror" THEN @ ELSE @ + 1,
                         !.files = @ \cup created]
    /\ RetryUnchanged

\* `env_updates = self._parse_special_outputs(result.stdout)`,
\* `os.unlink(script_path)` and the return of the normal path; a script that
\* stopped at the command printed no section
Cleanup ==
    /\ call.pc = "cleanup"
    /\ call' = [call EXCEPT
                  !.pc = "returned",
                  !.files = @ \ {ScriptFile},
                  !.ret = [success |-> call.how = "zero", stdout |-> <<"stdout">>,
                           stderr |-> <<"stderr">>,
                           env_updates |-> IF call.how = "zero"
                                           THEN env_updates_of(call.github_output,
                                                               call.github_env)
                                           ELSE EmptyDict]]
    /\ RetryUnchanged

\* `except subprocess.TimeoutExpired:`
HandleTimeout ==
    /\ call.pc = "timeout"
    /\ call' = [call EXCEPT
                  !.pc = "returned",
                  !.ret = [success |-> FALSE, stdout |-> <<>>,
                           stderr |-> <<"Timeout after", timeout>>,
                           env_updates |-> EmptyDict]]
    /\ RetryUnchanged

\* `except Exception as e:`
HandleExecException ==
    /\ call.pc = "except"
    /\ call' = [call EXCEPT
                  !.pc = "returned",
                  !.ret = [success |-> FALSE, stdout |-> <<>>, stderr |-> <<"e">>,
                           env_updates |-> EmptyDict]]
    /\ RetryUnchanged

ExecNext ==
    Enter \/ CreateScript \/ RunScript \/ Cleanup \/ HandleTimeout \/ HandleExecException

ExecSpec == ExecInit /\ [][ExecNext]_vars

-----------------------------------------------------------------------------
(* WorkflowExecutor.run, the scheduler loop of the Temporal mode, after the  *)
(* workflow was loaded and validated                                         *)

\* JobOutput(job_id, status, outputs, error).__dict__
JobOutput(job_id, status, outputs, error) ==
    [job_id |-> job_id, status |-> status, outputs |-> outputs, error |-> error]

\* how a child JobWorkflow ends: it returns a completed JobOutput with
\* outputs, it returns a failed JobOutput with an error, or `await handle`
\* raises
ChildResults == {"completed", "failed", "raise"}

\* the validated workflows of the model whose jobs declare no outputs
TemporalWorkflows == {wf \in Workflows : \A j \in Jobs : wf[j].outputs = EmptyDict}

TemporalInit ==
    /\ workflow_def \in TemporalWorkflows
    /\ executor = EmptyDict
    /\ errors = {}
    /\ completed = {}
    /\ job_outputs = EmptyDict
    /\ env_vars = ProcessEnv
    /\ ready_jobs = <<>>
    /\ pc = "while"
    /\ should_break = FALSE
    /\ result = NoResult
    /\ wave = 0
    /\ wave_env = ProcessEnv
    /\ log = <<>>
    /\ not_met = {}
    /\ job_run = NoJobRun
    /\ call = [pc |-> "run", handles |-> <<>>]

\* the loop head: `while len(completed) < len(workflow_def.jobs)` is true,
\* get_ready_jobs, and `if not ready_jobs: ... break`
TemporalGetReadyJobs ==
    /\ pc = "while"
    /\ Cardinality(completed) < Cardinality(DOMAIN workflow_def)
    /\ \E r \in {Range(get_ready_jobs(workflow_def, completed, job_outputs, env_vars))} :
          /\ ready_jobs' \in Orders(r)
          /\ pc' = IF r = {} THEN "return" ELSE "start"
    /\ call' = [call EXCEPT !.handles = <<>>]
    /\ UNCHANGED <<workflow_def, executor, errors, completed, job_outputs, env_vars,
                   should_break, result, wave, wave_env, log, not_met, job_run>>

\* one pass of `for job_id in ready_jobs`: the job is skipped when its guard
\* is false, else its child workflow is started and its handle kept
StartJob ==
    /\ pc = "start"
    /\ ready_jobs # <<>>
    /\ \E skipped \in {/\ workflow_def[Head(ready_jobs)].if_condition # <<>>
                       /\ ~evaluate_job_condition(
                              workflow_def[Head(ready_jobs)].if_condition,
                              job_outputs, env_vars)} :
          /\ job_outputs' = IF skipped
                            THEN (Head(ready_jobs) :>
                                    JobOutput(Head(ready_jobs), "skipped", EmptyDict, <<>>))
                                 @@ job_outputs
                            ELSE job_outputs
          /\ completed' = IF skipped THEN completed \cup {Head(ready_jobs)} ELSE completed
          /\ call' = IF skipped THEN call
                     ELSE [call EXCEPT !.handles = Append(@, Head(ready_jobs))]
          /\ pc' = IF Tail(ready_jobs) # <<>> THEN "start"
                   ELSE IF skipped /\ call.handles = <<>> THEN "while"
                   ELSE "collect"
    /\ ready_jobs' = Tail(ready_jobs)
    /\ UNCHANGED <<workflow_def, executor, errors, env_vars, should_break, result, wave,
                   wave_env, log, not_met, job_run>>

\* one pass of `for job_id, handle in handles`: `result = await handle`, the
\* JOB_ entries of its outputs, or the except branch; `completed.add(job_id)`
CollectJob ==
    /\ pc = "collect"
    /\ call.handles # <<>>
    /\ \E how \in ChildResults :
          LET job_id == Head(call.handles)
              outputs == IF how = "completed" THEN ("k" :> "v") ELSE EmptyDict
          IN /\ job_outputs' =
                   (job_id :> CASE how = "completed" ->
                                     JobOutput(job_id, "completed", outputs, <<>>)
                                [] how = "failed" ->
                                     JobOutput(job_id, "failed", EmptyDict, <<"error">>)
                                [] OTHER ->
                                     JobOutput(job_id, "failed", EmptyDict, <<"e">>))
                   @@ job_outputs
             /\ env_vars' = IF how = "raise" THEN env_vars
                            ELSE _update_global_environment(job_id, items(outputs), env_vars)
             /\ completed' = completed \cup {job_id}
    /\ call' = [call EXCEPT !.handles = Tail(@)]
    /\ pc' = IF Tail(call.handles) = <<>> THEN "while" ELSE "collect"
    /\ UNCHANGED <<workflow_def, executor, errors, ready_jobs, should_break, result, wave,
                   wave_env, log, not_met, job_run>>

\* the loop is over or was left by break: `return WorkflowResult(...,
\* status=JobStatus.COMPLETED.value, jobs=final_job_outputs)`
ReturnResult ==
    /\ \/ pc = "return"
       \/ pc = "while" /\ ~(Cardinality(completed) < Cardinality(DOMAIN workflow_def))
    /\ result' = [status |-> "completed", jobs |-> job_outputs]
    /\ pc' = "returned"
    /\ UNCHANGED <<workflow_def, executor, errors, completed, job_outputs, env_vars,
                   ready_jobs, should_break, wave, wave_env, log, not_met, job_run, call>>

TemporalNext == TemporalGetReadyJobs \/ StartJob \/ CollectJob \/ ReturnResult

TemporalSpec == TemporalInit /\ [][TemporalNext]_vars

-----------------------------------------------------------------------------
(* run_workflow as a function: the run in which every ready list is in the  *)
(* order get_ready_jobs gives for one fixed iteration order of `remaining`  *)

\* `for job_id in ready_jobs: await self._execute_job(...)`
RECURSIVE execute_jobs(_, _, _, _, _, _)
execute_jobs(jobs, wf, exs, max_retries, w, st) ==
    IF jobs = <<>> THEN st
    ELSE execute_jobs(Tail(jobs), wf, exs, max_retries, w,
                      _execute_job(Head(jobs), wf, exs, max_retries, w, st))

\* the while loop of run_workflow
RECURSIVE run_loop(_, _, _, _, _)
run_loop(wf, exs, max_retries, w, st) ==
    IF ~(Cardinality(st.completed) < Cardinality(DOMAIN wf)) THEN st
    ELSE LET r == _get_ready_jobs_with_diagnostics(wf, w + 1, st)
         IN IF r.should_break THEN r.st
            ELSE run_loop(wf, exs, max_retries, w + 1,
                          execute_jobs(get_ready_jobs(wf, r.st.completed, r.st.job_outputs,
                                                      r.st.env_vars),
                                       wf, exs, max_retries, w + 1, r.st))

\* the WorkflowResult and the final env_vars of that run
run_workflow(wf, exs, max_retries) ==
    LET st == run_loop(wf, exs, max_retries, 0,
                       [job_outputs |-> EmptyDict, env_vars |-> ProcessEnv,
                        completed |-> {}, log |-> <<>>])
    IN [result |-> _build_final_result(st.job_outputs), env_vars |-> st.env_vars]

-----------------------------------------------------------------------------
(* Properties of the scheduler *)

\* the needs of the job of a history record
NeedsOf(e) == workflow_def[e.job].needs

\* the history and the engine state agree: the jobs handled so far are the
\* completed ones and the ones with a result
LogMatchesState ==
    /\ {log[i].job : i \in 1..Len(log)} = completed
    /\ DOMAIN job_outputs = completed

\* C1: for jobs A, B with A in B.needs, B is neither run nor marked skipped
\* before A has been added to completed with its result: in the history of the
\* run every job comes after each of its needs, and every job of the history
\* is in completed with a result
C1_NeedsFinishFirst ==
    /\ LogMatchesState
    /\ \A i \in 1..Len(log) :
          \A A \in NeedsOf(log[i]) :
              /\ \E k \in 1..(i - 1) : log[k].job = A
              /\ A \in DOMAIN log[i].entry_outs

\* a job with a dependency has run its steps
C1_Witness ==
    \E i \in 1..Len(log) :
        /\ NeedsOf(log[i]) # {}
        /\ log[i].what = "run"
        /\ \E n \in 1..Len(log[i].calls) : log[i].calls[n] > 0

\* C2: get_ready_jobs returns exactly the jobs that are not in completed,
\* whose needs are all in completed and whose guard is absent or evaluates to
\* true under (job_outputs, env_vars); it returns no job twice and no
\* completed job
C2_ReadyJobsExact ==
    LET ready == get_ready_jobs(workflow_def, completed, job_outputs, env_vars)
    IN /\ Range(ready) =
            {j \in DOMAIN workflow_def :
                /\ j \notin completed
                /\ workflow_def[j].needs \subseteq completed
                /\ \/ workflow_def[j].if_condition = <<>>
                   \/ evaluate_job_condition(workflow_def[j].if_condition,
                                             job_outputs, env_vars)}
       /\ Cardinality(Range(ready)) = Len(ready)
       /\ Range(ready) \cap completed = {}
       /\ (pc = "for" /\ \A i \in 1..Len(log) : log[i].wave < wave)
             => Range(ready_jobs) = Range(ready)

\* a ready list has just been computed that leaves out one job for its needs
\* and another for its guard
C2_Witness ==
    /\ pc = "for"
    /\ \A i \in 1..Len(log) : log[i].wave < wave
    /\ ready_jobs # <<>>
    /\ \E j \in DOMAIN workflow_def \ Range(ready_jobs) :
          ~(workflow_def[j].needs \subseteq completed)
    /\ \E j \in DOMAIN workflow_def \ Range(ready_jobs) :
          /\ workflow_def[j].needs \subseteq completed
          /\ j \notin completed
          /\ ~evaluate_job_condition(workflow_def[j].if_condition, job_outputs, env_vars)

\* C3 as claimed: when the steps of a job B are run, every job of B.needs has
\* status completed
C3_NeedsSucceeded ==
    \A i \in 1..Len(log) :
        log[i].what = "run" =>
            \A A \in NeedsOf(log[i]) :
                /\ A \in DOMAIN log[i].entry_outs
                /\ log[i].entry_outs[A].status = "completed"

\* C3 as amended: when the steps of a job B are run, every job of B.needs has
\* a recorded result, which may be completed, failure or skipped
C3_NeedsFinished ==
    \A i \in 1..Len(log) :
        log[i].what = "run" =>
            \A A \in NeedsOf(log[i]) :
                /\ A \in DOMAIN log[i].entry_outs
                /\ log[i].entry_outs[A].status \in {"completed", "failure", "skipped"}

\* a job has run its steps after one of its needs failed and another was skipped
C3_Witness ==
    \E i \in 1..Len(log) :
        /\ log[i].what = "run"
        /\ \E A \in NeedsOf(log[i]) : log[i].entry_outs[A].status = "failure"
        /\ \E A \in NeedsOf(log[i]) : log[i].entry_outs[A].status = "skipped"

\* the history records of job j
Entries(j) == {i \in 1..Len(log) : log[i].job = j}

\* C4 as claimed: a job that get_ready_jobs found with its needs completed and
\* its guard false ends skipped, and its steps are never run
C4_FalseGuardEndsSkipped ==
    pc = "done" =>
        \A j \in not_met :
            /\ j \in DOMAIN result.jobs
            /\ result.jobs[j].status = "skipped"
            /\ \A i \in Entries(j) : log[i].what # "run"

\* C4 as amended: a job whose guard evaluates to false when it is handled (by
\* _handle_blocked_jobs when no job is ready, or by _execute_job before its
\* steps) has its needs completed, is marked skipped, stays skipped to the
\* final result, and its steps are never run
C4_FalseGuardWhenHandled ==
    \A i \in 1..Len(log) :
        log[i].guard = FALSE =>
            /\ log[i].what = "skipped"
            /\ log[i].calls = <<>>
            /\ NeedsOf(log[i]) \subseteq DOMAIN log[i].entry_outs
            /\ job_outputs[log[i].job].status = "skipped"
            /\ \A k \in Entries(log[i].job) : log[k].what # "run"
            /\ pc = "done" => result.jobs[log[i].job].status = "skipped"

\* the run is over; one job was skipped by _handle_blocked_jobs, another by
\* _execute_job after a job of the same ready list had run
C4_Witness ==
    /\ pc = "done"
    /\ \E i \in 1..Len(log) :
          /\ log[i].guard = FALSE
          /\ \A k \in 1..Len(log) : log[k].wave = log[i].wave => log[k].what = "skipped"
    /\ \E i \in 1..Len(log) :
          /\ log[i].guard = FALSE
          /\ \E k \in 1..(i - 1) : log[k].wave = log[i].wave /\ log[k].what = "run"

\* the steps of a job failed: some command that was called fails more often
\* than the retries allow
JobFailed(j) ==
    \E i \in Entries(j) :
        /\ log[i].what = "run"
        /\ \E n \in 1..Len(log[i].calls) :
              log[i].calls[n] > 0 /\ executor[j][n].fails > MaxRetries

\* a bound on what is left of run_workflow: it counts the completed jobs and
\* the position in the loop
LoopVariant ==
    2 * Cardinality(completed)
    + (CASE pc = "loop" -> 0
         [] pc = "for" -> 1
         [] pc = "build" -> 2 * Cardinality(DOMAIN workflow_def) + 2
         [] OTHER -> 2 * Cardinality(DOMAIN workflow_def) + 3)

\* C5: the scheduling loop of a validated workflow terminates (every step of
\* run_workflow increases a bounded variant, and run_workflow is always at a
\* position from which it steps on or has returned), never by the `stuck` break, and then every declared
\* job has exactly one result, with status completed, failed or skipped
C5_TerminatesWithAllResults ==
    /\ [][LoopVariant' > LoopVariant]_vars
    /\ [](LoopVariant <= 4 * Cardinality(DOMAIN workflow_def) + 3)
    /\ [](\/ pc = "loop"
          \/ pc = "for" /\ ready_jobs # <<>>
          \/ pc = "build"
          \/ pc = "done")
    /\ [](~should_break)
    /\ [](pc = "done" =>
            /\ DOMAIN result.jobs = DOMAIN workflow_def
            /\ \A j \in DOMAIN workflow_def :
                  /\ result.jobs[j].status \in {"completed", "failed", "skipped"}
                  /\ Cardinality(Entries(j)) = 1)

\* the run is over after three or more passes of the loop, one of which only
\* skipped jobs, with a failed job among the results
C5_Witness ==
    /\ pc = "done"
    /\ wave >= 3
    /\ \E j \in DOMAIN result.jobs : result.jobs[j].status = "failed"
    /\ \E i \in 1..Len(log) :
          \A k \in 1..Len(log) : log[k].wave = log[i].wave => log[k].what = "skipped"

\* C6: a job is marked skipped only if it has a guard and the guard evaluated
\* to false; at the end every job without a guard has run its steps and has a
\* result other than skipped, whatever happened to the other jobs
C6_SkippedOnlyByGuard ==
    /\ \A i \in 1..Len(log) :
          log[i].what = "skipped" =>
              /\ workflow_def[log[i].job].if_condition # <<>>
              /\ ~evaluate_job_condition(workflow_def[log[i].job].if_condition,
                                         log[i].entry_outs, log[i].entry_env)
    /\ \A j \in completed : job_outputs[j].status = "skipped" =>
          \E i \in Entries(j) : log[i].what = "skipped"
    /\ pc = "done" =>
          \A j \in DOMAIN workflow_def :
              workflow_def[j].if_condition = <<>> =>
                  /\ j \in DOMAIN result.jobs
                  /\ result.jobs[j].status \in {"completed", "failed"}
                  /\ \E i \in Entries(j) :
                        /\ log[i].what = "run"
                        /\ \E n \in 1..Len(log[i].calls) : log[i].calls[n] > 0

\* the run is over; a job without a guard has completed although one of its
\* needs failed
C6_Witness ==
    /\ pc = "done"
    /\ \E j \in DOMAIN workflow_def :
          /\ workflow_def[j].if_condition = <<>>
          /\ result.jobs[j].status = "completed"
          /\ \E A \in workflow_def[j].needs : result.jobs[A].status = "failed"

\* C7: the overall status is failed iff at least one job ended failed, and
\* completed otherwise
C7_OverallStatus ==
    pc = "done" =>
        /\ result.status \in {"failed", "completed"}
        /\ result.status = "failed" <=> \E j \in DOMAIN workflow_def : JobFailed(j)
        /\ result.status = "failed" <=>
              \E j \in DOMAIN result.jobs : result.jobs[j].status = "failed"

\* the run is over with overall status completed and a skipped job
C7_Witness ==
    /\ pc = "done"
    /\ result.status = "completed"
    /\ \E j \in DOMAIN result.jobs : result.jobs[j].status = "skipped"

\* C8: a step's command is called at most MaxRetries + 1 times; the first
\* success ends the calls and the step succeeds; when all MaxRetries + 1 calls
\* fail the step fails, no later step is called and the job ends failed
C8_RetryBudget ==
    \A i \in 1..Len(log) :
        log[i].what = "run" =>
            /\ \A n \in 1..Len(log[i].calls) :
                  LET ex == executor[log[i].job][n]
                      calls == log[i].calls[n]
                  IN /\ calls <= MaxRetries + 1
                     /\ calls > 0 =>
                           IF ex.fails <= MaxRetries
                           THEN calls = ex.fails + 1
                           ELSE /\ calls = MaxRetries + 1
                                /\ n = Len(log[i].calls)
                                /\ job_outputs[log[i].job].status = "failure"
            /\ job_outputs[log[i].job].status = "completed" <=>
                  /\ Len(log[i].calls) = Len(workflow_def[log[i].job].steps)
                  /\ \A n \in 1..Len(log[i].calls) :
                        log[i].calls[n] > 0 => executor[log[i].job][n].fails <= MaxRetries

\* a step succeeded at its last allowed call and the next step of the job
\* failed all its calls
C8_Witness ==
    \E i \in 1..Len(log) :
        /\ log[i].what = "run"
        /\ \E n \in 1..Len(log[i].calls) :
              /\ executor[log[i].job][n].fails = MaxRetries
              /\ log[i].calls[n] = MaxRetries + 1
        /\ \E n \in 1..Len(log[i].calls) :
              /\ executor[log[i].job][n].fails > MaxRetries
              /\ log[i].calls[n] = MaxRetries + 1
        /\ job_outputs[log[i].job].status = "failure"

\* C9 as claimed: a job of the current ready list is handled with env_vars as
\* it was when the list was computed, for its guard and for each of its
\* commands up to the STEP_ entries of its own earlier steps
C9_RunsAgainstWaveEnv ==
    \A i \in 1..Len(log) :
        log[i].wave = wave =>
            /\ log[i].entry_env = wave_env
            /\ \A n \in 1..Len(log[i].seen) :
                  \A name \in DOMAIN log[i].seen[n] :
                      \/ /\ name \in DOMAIN wave_env
                         /\ wave_env[name] = log[i].seen[n][name]
                      \/ \E m \in 1..(n - 1) :
                            /\ workflow_def[log[i].job].steps[m].id # ""
                            /\ name \in DOMAIN _update_step_environment(
                                   workflow_def[log[i].job].steps[m].id,
                                   executor[log[i].job][m].emits, EmptyDict)

\* C10 as claimed: the final result and the final env_vars are those of the
\* run that takes every ready list in one fixed order
C10_OrderIndependent ==
    pc = "done" =>
        LET ref == run_workflow(workflow_def, executor, MaxRetries)
        IN /\ result = ref.result
           /\ env_vars = ref.env_vars

\* C11: once a job is in completed its recorded result (status, outputs,
\* error) never changes and it stays in completed; the history only grows and
\* holds at most one record per job, so no job is run or skipped twice; the
\* final result carries the recorded outputs and error of every job
C11_ResultImmutable ==
    /\ [][\A j \in completed :
             /\ j \in completed'
             /\ j \in DOMAIN job_outputs /\ j \in DOMAIN job_outputs'
             /\ job_outputs'[j] = job_outputs[j]]_vars
    /\ [][Len(log') >= Len(log) /\ SubSeq(log', 1, Len(log)) = log]_vars
    /\ [](\A j \in DOMAIN workflow_def : Cardinality(Entries(j)) <= 1)
    /\ [](pc = "done" =>
            \A j \in completed :
                /\ result.jobs[j].outputs = job_outputs[j].outputs
                /\ result.jobs[j].error = job_outputs[j].error)

\* a job runs its steps in the third pass of the loop or later, after one job
\* failed and another was skipped in earlier passes
C11_Witness ==
    \E i \in 1..Len(log) :
        /\ log[i].what = "run"
        /\ log[i].wave >= 3
        /\ \E k \in 1..(i - 1) :
              log[k].wave < log[i].wave /\ job_outputs[log[k].job].status = "failure"
        /\ \E k \in 1..(i - 1) :
              log[k].wave < log[i].wave /\ job_outputs[log[k].job].status = "skipped"

\* C12 as claimed: every job whose recorded status is failure or skipped has
\* an empty outputs map, in job_outputs and in the final result
C12_FailedSkippedNoOutputs ==
    /\ \A j \in DOMAIN job_outputs :
          job_outputs[j].status \in {"failure", "skipped"} =>
              job_outputs[j].outputs = EmptyDict
    /\ pc = "done" =>
          \A j \in DOMAIN result.jobs :
              result.jobs[j].status \in {"failed", "skipped"} =>
                  result.jobs[j].outputs = EmptyDict

\* the names _update_global_environment writes for job j with outputs outs
JobEnvNames(j, outs) == DOMAIN _update_global_environment(j, items(outs), EmptyDict)

\* C13 as claimed: a job that ends failed leaves env_vars exactly as it was
\* before the job started, and env_vars only ever changes by the JOB_<J>_<K>
\* entries of a job J that has just completed
C13_FailedJobLeavesEnv ==
    [][/\ (pc = "for" /\ job_outputs'[Head(ready_jobs)].status = "failure")
             => env_vars' = env_vars
       /\ \A name \in DOMAIN env_vars' :
             (name \notin DOMAIN env_vars \/ env_vars'[name] # env_vars[name]) =>
                 /\ pc = "for"
                 /\ job_outputs'[Head(ready_jobs)].status = "completed"
                 /\ name \in JobEnvNames(Head(ready_jobs),
                                         job_outputs'[Head(ready_jobs)].outputs)]_vars

\* the name of the entry for output key of job j
JobEnvName(j, key) == "JOB_" \o upper(j) \o "_" \o upper(key)

\* the names a job of the model can have an entry under
AllJobEnvNames == {JobEnvName(j, key) : j \in Jobs, key \in Range(KeyOrder)}

\* the jobs that have run their steps and ended completed
CompletedJobs ==
    {log[i].job : i \in {n \in 1..Len(log) :
                            /\ log[n].what = "run"
                            /\ job_outputs[log[n].job].status = "completed"}}

\* no entry of env_vars is ever removed, and handling a job that ends failed
\* or skipped neither adds nor changes a JOB_ entry
JobEnvKept ==
    [][/\ DOMAIN env_vars \subseteq DOMAIN env_vars'
       /\ (pc = "loop" \/ (pc = "for" /\ job_outputs'[Head(ready_jobs)].status # "completed"))
             => \A name \in AllJobEnvNames \cap DOMAIN env_vars' :
                    name \in DOMAIN env_vars /\ env_vars'[name] = env_vars[name]]_vars

LastValue(outs, key) ==
    LET pairs == items(outs)
        n == CHOOSE n \in 1..Len(pairs) :
                 /\ upper(pairs[n][1]) = upper(key)
                 /\ \A m \in (n + 1)..Len(pairs) : upper(pairs[m][1]) # upper(key)
    IN pairs[n][2]

HasCycle(needs) ==
    LET nodes == DOMAIN needs \cup UNION {needs[j] : j \in DOMAIN needs}
        edge(x, y) == x \in DOMAIN needs /\ y \in needs[x]
    IN \E n \in 1..Cardinality(nodes) :
          \E path \in [1..(n + 1) -> nodes] :
              /\ path[1] = path[n + 1]
              /\ \A i \in 1..n : edge(path[i], path[i + 1])

\* some needs list names a job the workflow does not declare
HasDangling(needs) == \E j \in DOMAIN needs : ~(needs[j] \subseteq DOMAIN needs)

\* C15: when validate returns errors, run_workflow raises before its loop: no
\* ready list is computed, no command is called, no job gets a result and no
\* WorkflowResult is built; the loop is entered only with a workflow for which
\* validate returned no error, which has neither a cycle nor a dangling need
C15_InvalidNeverRuns ==
    /\ (errors # {} \/ validate(NeedsMap(workflow_def)) # {}) =>
          /\ pc \in {"parse", "raised"}
          /\ wave = 0 /\ ready_jobs = <<>> /\ log = <<>>
          /\ completed = {} /\ job_outputs = EmptyDict
          /\ env_vars = ProcessEnv
          /\ result = NoResult
    /\ pc = "raised" => errors # {}
    /\ pc \notin {"parse", "raised"} =>
          /\ errors = {}
          /\ ~HasCycle(NeedsMap(workflow_def))
          /\ ~HasDangling(NeedsMap(workflow_def))

\* run_workflow has raised for a workflow with a circular and a dangling need
C15_Witness ==
    /\ pc = "raised"
    /\ <<"Circular dependency detected">> \in errors
    /\ \E e \in errors : e[1] = "depends on non-existent job"
    /\ Cardinality(DOMAIN workflow_def) = 3

\* C16: for a workflow with at least one job, validate reports a circular
\* dependency iff the needs graph has a cycle, a job that needs itself
\* included; a workflow validated without errors has no cycle
C16_CycleIffReported ==
    (pc # "parse" /\ DOMAIN workflow_def # {}) =>
        /\ <<"Circular dependency detected">> \in errors
              <=> HasCycle(NeedsMap(workflow_def))
        /\ \A j \in DOMAIN workflow_def :
              j \in workflow_def[j].needs => <<"Circular dependency detected">> \in errors
        /\ errors = {} => ~HasCycle(NeedsMap(workflow_def))

\* validate has passed a workflow in which one job is needed along two paths,
\* directly and through another job, and names no undeclared job
C16_Witness ==
    /\ pc = "loop"
    /\ errors = {}
    /\ \E x, y, z \in DOMAIN workflow_def :
          /\ workflow_def[x].needs = {y, z}
          /\ workflow_def[y].needs = {z}
          /\ workflow_def[z].needs = {}

\* the calls made for step i in outer attempt a, as indexes into the history
CallsOf(a, i) ==
    {n \in 1..Len(job_run.calls) : job_run.calls[n].attempt = a /\ job_run.calls[n].step = i}

\* max_iterations of the loop of step i, 1 when it has no loop
StepMax(i) == max_iterations_of(job_run.job_def.steps[i].loop)

\* C17: within one outer attempt the command of a step with max_iterations n
\* (1 without a loop) is called at most n times, with step_attempt 0, 1, ...
\* in turn, and never again after a call that succeeded
C17_AtMostMaxIterations ==
    \A n \in 1..Len(job_run.calls) :
        LET c == job_run.calls[n]
            earlier == {m \in CallsOf(c.attempt, c.step) : m < n}
        IN /\ Cardinality(CallsOf(c.attempt, c.step)) <= StepMax(c.step)
           /\ c.step_attempt = Cardinality(earlier)
           /\ c.step_attempt < StepMax(c.step)
           /\ \A m \in earlier : ~job_run.calls[m].success

\* the run has returned; in its second outer attempt a step with
\* max_iterations 3 succeeded at its third call, and the next step was called
C17_Witness ==
    /\ job_run.pc = "returned"
    /\ \E n \in 1..Len(job_run.calls) :
          /\ job_run.calls[n].attempt = 1
          /\ job_run.calls[n].step_attempt = 2
          /\ job_run.calls[n].success
          /\ StepMax(job_run.calls[n].step) = 3
          /\ \E m \in (n + 1)..Len(job_run.calls) :
                job_run.calls[m].step = job_run.calls[n].step + 1

\* C18 as claimed: a failed call of a looped step is followed by another call
\* of that step in the same outer attempt only if the until condition
\* evaluated to false and iterations remained; when it evaluated to true
\* before the last iteration the step fails at once
C18_StopEndsStep ==
    \A n \in 1..Len(job_run.calls) :
        LET c == job_run.calls[n]
        IN (~c.success /\ c.evaluated) =>
              /\ (\E m \in CallsOf(c.attempt, c.step) : m > n) =>
                    (~c.until /\ c.step_attempt < StepMax(c.step) - 1)
              /\ (c.until /\ c.step_attempt < StepMax(c.step) - 1) =>
                    /\ \A m \in CallsOf(c.attempt, c.step) : m <= n
                    /\ n = Len(job_run.calls) => job_run.pc \in {"except", "returned"}

\* the diagnostics of the jobs in the current state of the run
Diagnostics == get_job_diagnostics(workflow_def, completed, job_outputs, env_vars)

\* the guard of job j is present and evaluates to false in the current state
GuardFalse(j) ==
    /\ workflow_def[j].if_condition # <<>>
    /\ ~evaluate_job_condition(workflow_def[j].if_condition, job_outputs, env_vars)

\* C19: get_job_diagnostics has a record for exactly the jobs outside
\* completed; a job with needs outside completed is waiting_for_dependencies,
\* with those needs as missing_dependencies and its guard not evaluated; a job
\* with all needs completed is condition_not_met iff its guard is present and
\* false, and ready otherwise
C19_DiagnosticsStatus ==
    /\ DOMAIN Diagnostics = DOMAIN workflow_def \ completed
    /\ \A j \in DOMAIN Diagnostics :
          LET d == Diagnostics[j]
              missing == workflow_def[j].needs \ completed
          IN /\ d.missing_dependencies = missing
             /\ d.dependencies_met <=> missing = {}
             /\ missing # {} =>
                   /\ d.status = "waiting_for_dependencies"
                   /\ d.condition_details = <<>>
                   /\ d.condition_met
             /\ missing = {} =>
                   /\ d.status = (IF GuardFalse(j) THEN "condition_not_met" ELSE "ready")
                   /\ d.condition_met <=> ~GuardFalse(j)
                   /\ workflow_def[j].if_condition # <<>> =>
                         d.condition_details = <<workflow_def[j].if_condition, ~GuardFalse(j)>>

\* a job has finished; of the others one waits for its needs while its guard
\* is false, and one has its needs completed and a false guard
C19_Witness ==
    /\ completed # {}
    /\ \E j1, j2 \in DOMAIN Diagnostics :
          /\ Diagnostics[j1].status = "waiting_for_dependencies"
          /\ GuardFalse(j1)
          /\ Diagnostics[j2].status = "condition_not_met"

\* the value of the atom at position p of the condition of the call
AtomTrue(p) == evaluate_job_condition(<<call.condition[p]>>, call.job_outputs, call.env_vars)

\* the positions of the atoms of the condition of the call
AtomPositions == {p \in 1..Len(call.condition) : p % 2 = 1}

\* the atoms of the " || "-separated group of the atom at position p: those
\* with only " && " between them and p
Group(p) ==
    {q \in AtomPositions :
        \A i \in 1..Len(call.condition) :
            ((q < i /\ i < p) \/ (p < i /\ i < q)) => call.condition[i] # OrTok}

\* the parts made of the atoms at the positions P, in the order of the
\* condition
RECURSIVE PartsAt(_)
PartsAt(P) ==
    IF P = {} THEN <<>>
    ELSE LET p == CHOOSE q \in P : \A r \in P : q <= r
         IN <<<<call.condition[p]>>>> \o PartsAt(P \ {p})

\* C20: evaluate_job_condition returns true iff all atoms of some group are
\* true, so A || B && C is A or (B and C); and it evaluates exactly the atoms
\* that have no false atom before them in their group and no all-true group
\* before their group, in the order of the condition
C20_PrecedenceShortCircuit ==
    call.pc = "returned" =>
        /\ call.ret <=> \E p \in AtomPositions : \A q \in Group(p) : AtomTrue(q)
        /\ call.evaluated =
              PartsAt({p \in AtomPositions :
                          /\ \A q \in Group(p) : q < p => AtomTrue(q)
                          /\ \A g \in AtomPositions :
                                (g < p /\ g \notin Group(p)) =>
                                    \E q \in Group(g) : ~AtomTrue(q)})

\* A || B && C has returned true with A false, B and C true and all three
\* evaluated
C20_Witness ==
    /\ call.pc = "returned"
    /\ Len(call.condition) = 5
    /\ call.condition[2] = OrTok /\ call.condition[4] = AndTok
    /\ ~AtomTrue(1) /\ AtomTrue(3) /\ AtomTrue(5)
    /\ call.ret
    /\ Len(call.evaluated) = 3

-----------------------------------------------------------------------------
(* The forms of a guard *)

\* evaluate_job_condition has returned for a condition that is, whitespace at
\* its ends apart, one text of the given kind
Returned(kind) ==
    /\ call.pc = "returned"
    /\ Len(strip(call.condition)) = 1
    /\ strip(call.condition)[1].kind = kind

\* the one text of such a condition
GuardAtom == strip(call.condition)[1]

\* job_outputs of the call records job J with an output K equal to V
HasOutput(t) ==
    /\ t.job \in DOMAIN call.job_outputs
    /\ t.key \in DOMAIN call.job_outputs[t.job].outputs
    /\ call.job_outputs[t.job].outputs[t.key] = t.val

Normalized(t) ==
    IF t.job \notin DOMAIN call.job_outputs THEN "success"
    ELSE IF call.job_outputs[t.job].status = "completed" THEN "success"
    ELSE call.job_outputs[t.job].status

C23_EnvNotEqual ==
    Returned("env!=") =>
        (call.ret <=> ~(/\ GuardAtom.key \in DOMAIN call.env_vars
                        /\ call.env_vars[GuardAtom.key] = GuardAtom.val))

\* C24: a cancelled() condition evaluates to false as a job guard
C24_CancelledFalse ==
    Returned("cancelled()") => ~call.ret

\* C25: as a job guard success(), failure() and cancelled() each evaluate to
\* true whatever outcome is recorded for the jobs
C25_FunctionsTrue ==
    \A f \in {"success()", "failure()", "cancelled()"} : Returned(f) => call.ret

\* a call for success() with job a recorded as failed has returned true
C25_Witness ==
    /\ Returned("success()")
    /\ "a" \in DOMAIN call.job_outputs
    /\ call.job_outputs["a"].status = "failure"
    /\ call.ret

\* C26: evaluate_job_condition returns true for every condition that is
\* empty, whitespace only, or a text of none of the recognised forms
C26_FailOpen ==
    (/\ call.pc = "returned"
     /\ \/ strip(call.condition) = <<>>
        \/ strip(call.condition) = <<UnknownTok>>)
    => call.ret

\* a call for a text of no recognised form, with whitespace around it, has
\* returned true
C26_Witness ==
    /\ call.pc = "returned"
    /\ call.condition = <<WsTok, UnknownTok, WsTok>>
    /\ call.ret

-----------------------------------------------------------------------------
(* Variable substitution *)

\* C27: substitute leaves a $NAME or ${NAME} reference unchanged when NAME is
\* neither a key of the variable map nor set in the process environment: a
\* text that is one such reference is returned as it is
C27_UnknownLeftUnchanged ==
    \A name \in {<<"A">>, <<"B">>, <<"A", "B">>} :
        (/\ call.pc = "substituted"
         /\ call.text \in {Plain(name), Braced(name)}
         /\ name \notin Keys(call.variables)
         /\ name \notin DOMAIN Environ)
        => call.ret = call.text

\* the text holds no templated form ${{ ... }}
NoTemplate(s) ==
    \A i \in 1..(Len(s) - 2) : ~(s[i] = "$" /\ s[i + 1] = "{" /\ s[i + 2] = "{")

\* C28: substitute is idempotent: for a text t without templated forms whose
\* result holds none either, substitute(substitute(t, v), v) = substitute(t, v)
C28_Idempotent ==
    (/\ call.pc = "resubstituted"
     /\ NoTemplate(call.text)
     /\ NoTemplate(call.ret))
    => call.again = call.ret

-----------------------------------------------------------------------------
(* The side-channel parser *)

\* C29 as stated: for any map m of KEY=VALUE pairs (non-empty keys without
\* "=", values possibly with "="), parsing a stdout with m's pairs one per
\* line between the sentinels returns exactly m
C29_RoundTrip ==
    call.pc = "parsed" => call.ret = call.m

\* no key and no value of the pairs has whitespace at an end
Stripped(pairs) ==
    \A i \in 1..Len(pairs) :
        str_strip(pairs[i][1]) = pairs[i][1] /\ str_strip(pairs[i][2]) = pairs[i][2]

\* C29: for any map m of KEY=VALUE pairs whose keys and values have no
\* whitespace at their ends, parsing a stdout with m's pairs one per line
\* between the sentinels returns exactly m, each line split at its first "=";
\* lines outside the sentinel sections contribute nothing
C29_RoundTripStripped ==
    (call.pc = "parsed" /\ Stripped(call.pairs)) => call.ret = call.m

\* a stdout with a printed line k=p, then k with a value that holds "=" in
\* the output section and j in the env section, has been parsed into m
C29_Witness ==
    /\ call.pc = "parsed"
    /\ Stripped(call.pairs)
    /\ Len(call.pairs) = 2
    /\ call.stdout[1] = <<"k", "=", "p">>
    /\ call.stdout[3] = <<"k", "=", "v", "=">>
    /\ call.stdout[4] = EnvSentinel
    /\ call.ret = call.m

-----------------------------------------------------------------------------
(* Foreach loops *)

\* C30: a job whose loop is a foreach over at least one item is run: once it
\* has been built from its definition, its steps are executed for the items
\* (the run is under way or has returned, with a call made for the first
\* item)
C30_ForeachRuns ==
    (/\ call.pc \in {"raised", "constructed"}
     /\ call.job_data.loop.given
     /\ "foreach" \in DOMAIN call.job_data.loop.kwargs)
    => /\ job_run.pc # "idle"
       /\ job_run.pc = "returned" => job_run.calls # <<>>

-----------------------------------------------------------------------------
(* Properties of the runners *)

\* JobWorkflow.run is at the first step of an attempt and has made no call in
\* that attempt yet
AttemptStarts ==
    /\ job_run.pc = "step"
    /\ job_run.step = 1
    /\ job_run.step_attempt = 0
    /\ \A i \in 1..Len(job_run.calls) : job_run.calls[i].attempt # job_run.attempt

\* C31: every outer attempt of JobWorkflow.run starts at the first step with
\* fresh per-attempt state: no output and no env entry of a failed attempt is
\* visible in the next, and there are at most max_iterations attempts
C31_FreshAttempts ==
    AttemptStarts =>
        /\ job_run.attempt < max_iterations_of(job_run.job_def.loop)
        /\ job_run.all_outputs = EmptyDict
        /\ job_run.env_vars = ProcessEnv

\* C32: the delay before retrying a step after its b-th failed attempt is
\* min(2^b, cap) seconds with cap at most 60: 1 s after the first failure,
\* doubling, and never more than 60 s whatever max_retries is
C32_BackoffCapped ==
    call.pc \in {"execute", "sleep", "returned", "done"} /\ "slept" \in DOMAIN call =>
        \E cap \in 1..60 :
            \A b \in 1..Len(call.slept) :
                call.slept[b] = IF 2 ^ (b - 1) < cap THEN 2 ^ (b - 1) ELSE cap

\* C33: a non-zero exit, a timeout and an executor exception never leave the
\* job runner: each is a failed attempt counted against the same max_retries
\* budget, a timeout comes back as a failure whose error names the timeout and
\* that has no outputs, and after the last attempt the job has a failed result
\* with an error message
C33_FailuresContained ==
    "calls" \in DOMAIN call =>
        /\ call.pc # "raised"
        /\ call.calls <= call.max_retries + 1
        /\ call.pc = "sleep" => call.calls <= call.max_retries
        /\ call.pc \in {"returned", "done"} /\ ~call.ret.succeeded =>
              /\ call.calls = call.max_retries + 1
              /\ call.last \in {"nonzero", "timeout", "raise"}
              /\ call.ret.error # <<>>
              /\ call.ret.outputs = EmptyDict
              /\ call.last = "timeout" => SubSeq(call.ret.error, 4, 5) = <<"Timeout after", timeout>>
        /\ call.pc = "done" /\ ~call.ret.succeeded =>
              /\ call.job_output.status = "failure"
              /\ call.job_output.error = call.ret.error
              /\ call.job_output.outputs = EmptyDict

C33_Witness ==
    /\ "calls" \in DOMAIN call
    /\ call.pc = "done"
    /\ call.max_retries = 2
    /\ call.calls = 3
    /\ call.last = "raise"
    /\ call.job_output.status = "failure"

\* the executor calls step n of job j takes when it is run
StepRun(j, n) == _execute_step_with_retry(executor[j][n], MaxRetries, 0, 0)

\* C34: the steps of a job run strictly in the order of their declaration;
\* once a step has failed all its attempts no later step is invoked and the
\* job ends failed with the error of that step
C34_StepsInOrder ==
    \A i \in 1..Len(log) :
        log[i].what = "run" =>
            LET j == log[i].job
                steps == workflow_def[j].steps
                calls == log[i].calls
                Failed(n) == steps[n].run # "" /\ ~StepRun(j, n).succeeded
            IN /\ Len(calls) <= Len(steps)
               /\ \A n \in 1..Len(calls) :
                     /\ calls[n] = IF steps[n].run # "" THEN StepRun(j, n).calls ELSE 0
                     /\ \A m \in 1..(n - 1) : ~Failed(m)
                     /\ Failed(n) =>
                           /\ n = Len(calls)
                           /\ job_outputs[j].status = "failure"
                           /\ job_outputs[j].error = StepRun(j, n).error
               /\ (\A n \in 1..Len(calls) : ~Failed(n)) =>
                     /\ Len(calls) = Len(steps)
                     /\ job_outputs[j].status = "completed"

\* the first of two steps failed all its attempts and the second was not run
C34_Witness ==
    \E i \in 1..Len(log) :
        /\ log[i].what = "run"
        /\ log[i].job = "a"
        /\ log[i].calls = <<MaxRetries + 1>>
        /\ job_outputs["a"].status = "failure"
        /\ job_outputs["a"].error = <<"Command failed after", MaxRetries + 1, "attempts">>

\* f"STEP_{step_id}_{key}".upper()
StepEnvName(step_id, key) == "STEP_" \o upper(step_id) \o "_" \o upper(key)

\* the (name, value) pairs the steps before step n of job j write to env_vars:
\* those of the steps with an id, for each pair their command emits
StepEnvPairs(j, n) ==
    UNION {{<<StepEnvName(workflow_def[j].steps[m].id, key), executor[j][m].emits[key]>> :
               key \in DOMAIN executor[j][m].emits} :
           m \in {m \in 1..(n - 1) : workflow_def[j].steps[m].id # ""}}

C36_GithubEnvVisible ==
    \A i \in 1..Len(log) :
        log[i].what = "run" =>
            \A n \in 1..Len(log[i].calls) :
                /\ \A m \in 1..(n - 1) :
                      \A name \in DOMAIN executor[log[i].job][m].github_env :
                          /\ name \in DOMAIN log[i].seen[n]
                          /\ log[i].seen[n][name] = executor[log[i].job][m].github_env[name]
                /\ \A j \in DOMAIN workflow_def \ {log[i].job} :
                      \A m \in 1..Len(workflow_def[j].steps) :
                          \A name \in DOMAIN executor[j][m].github_env :
                              name \notin DOMAIN log[i].seen[n]

\* the value the step with id S of job j emitted under K, "" when no step with
\* that id emitted K
EmittedBy(j, S, K) ==
    LET emitting == {n \in 1..Len(workflow_def[j].steps) :
                        /\ workflow_def[j].steps[n].id = S
                        /\ K \in DOMAIN executor[j][n].emits}
    IN IF emitting = {} THEN ""
       ELSE executor[j][CHOOSE n \in emitting : TRUE].emits[K]

\* C37: when a job completes, each declared output whose template is
\* steps.S.outputs.K has the value step S of the job emitted under K, whatever
\* other steps emitted under that key, and the empty string when S emitted no K
C37_JobOutputsFromStep ==
    \A j \in DOMAIN job_outputs :
        job_outputs[j].status = "completed" =>
            \A name \in DOMAIN workflow_def[j].outputs :
                workflow_def[j].outputs[name].kind = "steps" =>
                    /\ name \in DOMAIN job_outputs[j].outputs
                    /\ job_outputs[j].outputs[name] =
                           EmittedBy(j, workflow_def[j].outputs[name].step,
                                     workflow_def[j].outputs[name].key)

\* the status of job J in the WorkflowResult built from the current job_outputs
ReportedStatus(J) == _build_final_result(job_outputs).jobs[J].status

\* C38: the status a guard needs.J.result sees for a finished job J is the
\* status the final WorkflowResult reports for J, completed read as success:
\* needs.J.result == 'failed' is true for a job reported failed and
\* needs.J.result == 'skipped' for a job reported skipped
C38_GuardSeesReportedStatus ==
    \A J \in DOMAIN job_outputs :
        evaluate_job_condition(
            <<NeedsResEq(J, IF ReportedStatus(J) = "completed" THEN "success"
                            ELSE ReportedStatus(J))>>,
            job_outputs, env_vars)

\* C39: BashExecutor.execute leaves no temporary file behind on any exit
\* path (exit code zero, non-zero, timeout, exception), and an empty command
\* returns success with empty maps without creating a file or a child process
C39_TempFilesReleased ==
    "files" \in DOMAIN call =>
        /\ call.pc = "returned" => call.files = {}
        /\ is_blank(call.command) =>
              /\ call.files = {}
              /\ call.children = 0
              /\ call.pc = "returned" =>
                    call.ret = [success |-> TRUE, stdout |-> <<>>, stderr |-> <<>>,
                                env_updates |-> EmptyDict]

\* C40: the WorkflowResult of WorkflowExecutor.run has status failed when some
\* job result in it has status failed, and completed otherwise
C40_TemporalOverallStatus ==
    (pc = "returned" /\ call.pc = "run") =>
        result.status = IF \E j \in DOMAIN result.jobs : result.jobs[j].status = "failed"
                        THEN "failed" ELSE "completed"
====
